---- MODULE Spec2Model ----
(***************************************************************************)
(* Model of the ranking engine of lambda_search_rank_and_reasoning:        *)
(* FingerprintMapper, chunk_list, process_batch (retry loop around         *)
(* LLMManager.get_completion and its fallback), and process_people_direct  *)
(* (semaphore-bounded asyncio.gather over the batches, final sort),         *)
(* extract_score_data (regions, fields, value conversion) and the          *)
(* candidate reconciliation of process_reasoning_request (ranking stage,   *)
(* reasoning stage, status and error state of the search document).        *)
(*                                                                         *)
(* Encodings.  A fingerprint is a sequence of letter codes 1..26           *)
(* (<<1>> = 'a', <<26>> = 'z', <<1,1>> = 'aa'); <<>> is the empty string.  *)
(* A person is identified by its nodeId, a number in 1..MaxId; 0 is the    *)
(* empty nodeId.  A score record is [id, nodeId, score]; a key the Python  *)
(* dict does not have is encoded by NoKeyId / NoNode.                      *)
(***************************************************************************)
EXTENDS Integers, Sequences, FiniteSets, TLC

\* ---- bounds of the model ----
MaxId == 2
MaxPeople == 2
MaxBatchSize == 2
MaxConcurrent == 2
MaxRecords == 2
MaxNames == 55
MaxChunkLen == 5
MaxChunkSize == 3
MaxBodyLen == 1
MaxTextLen == 4
MaxCandidates == 2
MaxRanked == 2
MaxNodes == 2
MaxItems == 1
MaxInsights == 2
MaxIndicators == 2
MaxInvocations == 2

\* ---- program constants ----
Alphabet == 26
max_retries == 3
\* RANK_SCORE_THRESHOLD default 6.5 and the default sort score -1, in tenths
score_threshold == 65
default_score == -10
top_k_default == 10
\* retry_on_empty_result(max_retries = 3)
decorator_max_retries == 3

VARIABLES
  map, reverse_map, current_char, lock,
  people, batch_size, max_concurrent_tasks, stage, batches, sem,
  pc, idx, attempt, last_error, result, status,
  traced, delays, call_log,
  issued, alloc, last_call,
  final_results, ppd_failed,
  search_doc, response, model_name

mapperVars == <<map, reverse_map, current_char, lock>>
inputVars == <<people, batch_size, max_concurrent_tasks>>
taskVars == <<pc, idx, attempt, last_error, result, status>>
callLog == <<traced, delays, call_log>>
docVars == <<search_doc, response, model_name>>
vars == <<map, reverse_map, current_char, lock,
          people, batch_size, max_concurrent_tasks, stage, batches, sem,
          pc, idx, attempt, last_error, result, status,
          traced, delays, call_log,
          issued, alloc, last_call,
          final_results, ppd_failed,
          search_doc, response, model_name>>

\* ---- values ----
NoKeyId == <<0>>
NoNode == 0
NullScore == -1
NotFound == 0
\* find_one returns None: the collection has no document for the searchId
NoDoc == [exists |-> FALSE]
Identities == 1..MaxId
Scores == {NullScore, 8}
Tok(k) == <<k>>
RespTokens == {Tok(1), Tok(2), Tok(Alphabet)}
Last(s) == s[Len(s)]
Front(s) == SubSeq(s, 1, Len(s) - 1)

RECURSIVE SeqsUpTo(_, _)
SeqsUpTo(S, n) ==
  IF n = 0 THEN {<<>>}
  ELSE LET shorter == SeqsUpTo(S, n - 1)
       IN shorter \cup {Append(s, x) : s \in {q \in shorter : Len(q) = n - 1}, x \in S}

\* ---- FingerprintMapper ----

\* a cursor that is not advanced
NextChar_Stuck(cur) == cur

\* the "move to next character" step of get_fingerprint
NextChar(cur) ==
  IF cur = Tok(Alphabet) THEN <<1, 1>>
  ELSE IF Len(cur) = 1 THEN Tok(cur[1] + 1)
  ELSE IF Last(cur) = Alphabet THEN Front(cur) \o <<1, 1>>
  ELSE Front(cur) \o <<Last(cur) + 1>>

\* a lookup that ignores the existing mapping
FingerprintOf_Fresh(m, cur, name) == cur

\* the token get_fingerprint returns for a non-empty name
FingerprintOf(m, cur, name) == IF name \in DOMAIN m THEN m[name] ELSE cur

Extend(f, k, v) == [x \in DOMAIN f \cup {k} |-> IF x = k THEN v ELSE f[x]]

\* the forward map after get_fingerprint(name)
MapAfter(m, cur, name) == IF name \in DOMAIN m THEN m ELSE Extend(m, name, cur)

\* the reverse map after get_fingerprint(name)
ReverseAfter(m, rm, cur, name) == IF name \in DOMAIN m THEN rm ELSE Extend(rm, cur, name)

\* the allocation cursor after get_fingerprint(name)
CharAfter(m, cur, name) == IF name \in DOMAIN m THEN cur ELSE NextChar(cur)

\* a lookup that falls back to the first identity
get_original_name_Default(rm, fp) == IF fp \in DOMAIN rm THEN rm[fp] ELSE 1

\* get_original_name: dict.get, None when the fingerprint is unknown
get_original_name(rm, fp) == IF fp \in DOMAIN rm THEN rm[fp] ELSE NotFound

\* one record of replace_fingerprints_in_results
ReplaceOne(rm, r, original_data) ==
  IF r.id \in DOMAIN rm
  THEN LET node_id == rm[r.id]
       IN IF \E i \in 1..Len(original_data) : original_data[i] = node_id
          THEN [id |-> NoKeyId, nodeId |-> node_id, score |-> r.score]
          ELSE r
  ELSE r

replace_fingerprints_in_results(rm, results, original_data) ==
  [i \in 1..Len(results) |-> ReplaceOne(rm, results[i], original_data)]

\* ---- chunk_list ----
Min(a, b) == IF a < b THEN a ELSE b
ChunkStarts(n, chunk_size) == {i \in 0..(n - 1) : i % chunk_size = 0}

\* a split that drops the incomplete last chunk
chunk_list_Full(lst, chunk_size) ==
  [k \in 1..(Len(lst) \div chunk_size) |->
     SubSeq(lst, (k - 1) * chunk_size + 1, k * chunk_size)]

chunk_list(lst, chunk_size) ==
  [k \in 1..Cardinality(ChunkStarts(Len(lst), chunk_size)) |->
     SubSeq(lst, (k - 1) * chunk_size + 1, Min(k * chunk_size, Len(lst)))]

\* ---- final sort of process_people_direct ----

\* sorted() compares the keys with <; a None key raises TypeError as soon
\* as one comparison is made, i.e. when the list has two or more records
SortRaises(results) ==
  Len(results) >= 2 /\ \E i \in 1..Len(results) : results[i].score = NullScore

RECURSIVE InsertDesc(_, _)
InsertDesc(sorted, r) ==
  IF sorted = <<>> THEN <<r>>
  ELSE IF Last(sorted).score >= r.score THEN Append(sorted, r)
  ELSE Append(InsertDesc(Front(sorted), r), Last(sorted))

RECURSIVE SortedDesc(_)
SortedDesc(results) ==
  IF results = <<>> THEN <<>>
  ELSE InsertDesc(SortedDesc(Front(results)), Last(results))

RECURSIVE Flatten(_)
Flatten(seqs) == IF seqs = <<>> THEN <<>> ELSE Flatten(Front(seqs)) \o Last(seqs)

\* the value process_people_direct returns for the gathered batch results
FinalResults(batch_results) ==
  IF SortRaises(Flatten(batch_results)) THEN <<>> ELSE SortedDesc(Flatten(batch_results))

\* ---- the LLM collaborator ----
RespRecords == [id : RespTokens, nodeId : {NoNode}, score : Scores]
\* what extract_score_data returns for a body with at least one <output> block
Responses == SeqsUpTo(RespRecords, MaxRecords) \ {<<>>}
\* every entry of MODEL_CONFIGS carries a fallback_model
FallbackConfigured == TRUE
WaitTime(a) == 2 ^ a

\* ---- process_people_direct ----
Tasks == DOMAIN batches
Batch(t) == batches[t]

\* a semaphore that never blocks
SemCanAcquire_Always(s) == TRUE

\* asyncio.Semaphore: a slot can be taken while the counter is positive
SemCanAcquire(s) == s > 0
\* asyncio.Lock: can be taken while nobody holds it
LockFree(l) == l = 0

\* the state right after the arguments of process_people_direct are bound;
\* tr is the batch whose LLM traffic is recorded in the call log (0: none)
EngineInit(ppl, bs, mct, tr) ==
  /\ map = <<>> /\ reverse_map = <<>> /\ current_char = Tok(1) /\ lock = 0
  /\ people = ppl /\ batch_size = bs /\ max_concurrent_tasks = mct
  /\ stage = "init" /\ batches = <<>> /\ sem = 0
  /\ pc = <<>> /\ idx = <<>> /\ attempt = <<>> /\ last_error = <<>>
  /\ result = <<>> /\ status = <<>>
  /\ traced = tr /\ delays = <<>> /\ call_log = <<>>
  /\ issued = {} /\ alloc = <<>> /\ last_call = [op |-> "none", arg |-> 0, ret |-> 0]
  /\ final_results = <<>> /\ ppd_failed = FALSE

\* no search document is involved and no invocation has returned
InitWith(ppl, bs, mct, tr) ==
  /\ EngineInit(ppl, bs, mct, tr)
  /\ search_doc = NoDoc /\ response = 0 /\ model_name = "groq_llama"

Init ==
  \E ppl \in SeqsUpTo(Identities, MaxPeople), bs \in 1..MaxBatchSize, mct \in 1..MaxConcurrent :
    InitWith(ppl, bs, mct, 0)

\* FingerprintMapper(), chunk_list, Semaphore(max_concurrent_tasks), task creation
Start ==
  /\ stage = "init"
  /\ stage' = "running"
  /\ batches' = chunk_list(people, batch_size)
  /\ sem' = max_concurrent_tasks
  /\ LET T == DOMAIN chunk_list(people, batch_size)
     IN /\ pc' = [t \in T |-> "sem"]
        /\ idx' = [t \in T |-> 1]
        /\ attempt' = [t \in T |-> 0]
        /\ last_error' = [t \in T |-> "none"]
        /\ result' = [t \in T |-> <<>>]
        /\ status' = [t \in T |-> "pending"]
  /\ UNCHANGED <<docVars, mapperVars, inputVars, callLog, issued, alloc, last_call, final_results,
                 ppd_failed>>

\* async with sem: enter process_batch
SemAcquire(t) ==
  /\ stage = "running" /\ pc[t] = "sem"
  /\ SemCanAcquire(sem)
  /\ sem' = sem - 1
  /\ pc' = [pc EXCEPT ![t] = "gf_lock"]
  /\ UNCHANGED <<docVars, mapperVars, inputVars, stage, batches, idx, attempt, last_error, result,
                 status, callLog, issued, alloc, last_call, final_results, ppd_failed>>

\* a return that keeps the slot of the semaphore
Leave_KeepSlot(t, r, st) ==
  /\ result' = [result EXCEPT ![t] = r]
  /\ status' = [status EXCEPT ![t] = st]
  /\ pc' = [pc EXCEPT ![t] = "done"]
  /\ attempt' = [attempt EXCEPT ![t] = 0]
  /\ last_error' = [last_error EXCEPT ![t] = "none"]
  /\ sem' = sem

\* process_batch returns r (outcome st) into process_batch_with_semaphore,
\* which leaves "async with sem"; the locals of the call are gone
Leave(t, r, st) ==
  /\ result' = [result EXCEPT ![t] = r]
  /\ status' = [status EXCEPT ![t] = st]
  /\ pc' = [pc EXCEPT ![t] = "done"]
  /\ attempt' = [attempt EXCEPT ![t] = 0]
  /\ last_error' = [last_error EXCEPT ![t] = "none"]
  /\ sem' = sem + 1

\* get_fingerprint: async with self._lock
GfLock(t) ==
  /\ stage = "running" /\ pc[t] = "gf_lock"
  /\ LockFree(lock)
  /\ lock' = t
  /\ pc' = [pc EXCEPT ![t] = "gf_body"]
  /\ UNCHANGED <<docVars, map, reverse_map, current_char, inputVars, stage, batches, sem, idx, attempt,
                 last_error, result, status, callLog, issued, alloc, last_call,
                 final_results, ppd_failed>>

\* get_fingerprint body for person idx of the batch, then json_to_xml for that
\* person, which either succeeds or raises (caught by process_batch: return [])
GfBody(t, xml_ok) ==
  /\ stage = "running" /\ pc[t] = "gf_body"
  /\ LET name == Batch(t)[idx[t]]
     IN /\ map' = MapAfter(map, current_char, name)
        /\ reverse_map' = ReverseAfter(map, reverse_map, current_char, name)
        /\ current_char' = CharAfter(map, current_char, name)
        /\ issued' = issued \cup {<<name, FingerprintOf(map, current_char, name)>>}
        /\ alloc' = IF name \in DOMAIN map THEN alloc ELSE Append(alloc, current_char)
  /\ lock' = 0
  /\ IF ~xml_ok
     THEN /\ Leave(t, <<>>, "xml_failed")
          /\ UNCHANGED idx
     ELSE /\ idx' = [idx EXCEPT ![t] = idx[t] + 1]
          /\ pc' = [pc EXCEPT ![t] = IF idx[t] = Len(Batch(t)) THEN "call" ELSE "gf_lock"]
          /\ UNCHANGED <<result, status, sem, attempt, last_error>>
  /\ UNCHANGED <<docVars, inputVars, stage, batches, callLog, last_call, final_results, ppd_failed>>

\* a loop that treats an empty body like a failed attempt and calls again
Completed_RetryEmpty(t, outcome) ==
  CASE outcome = "empty" ->
         /\ pc' = [pc EXCEPT ![t] = "call"]
         /\ attempt' = [attempt EXCEPT ![t] = (attempt[t] + 1) % max_retries]
         /\ UNCHANGED <<last_error, result, status, sem>>
    [] outcome = "no_records" -> Leave(t, <<>>, "no_records")
    [] outcome = "ok" ->
         /\ pc' = [pc EXCEPT ![t] = "rf_lock"]
         /\ attempt' = [attempt EXCEPT ![t] = 0]
         /\ last_error' = [last_error EXCEPT ![t] = "none"]
         /\ UNCHANGED <<result, status, sem>>

\* the retry loop is left by break with a response body: empty body, a body
\* without any <output> block, or a body with records.  attempt and
\* last_error are not read after the loop.  The records of the body are
\* drawn where they are first used, in RfBody.
Completed(t, outcome) ==
  CASE outcome = "empty" -> Leave(t, <<>>, "empty_body")
    [] outcome = "no_records" -> Leave(t, <<>>, "no_records")
    [] outcome = "ok" ->
         /\ pc' = [pc EXCEPT ![t] = "rf_lock"]
         /\ attempt' = [attempt EXCEPT ![t] = 0]
         /\ last_error' = [last_error EXCEPT ![t] = "none"]
         /\ UNCHANGED <<result, status, sem>>

\* the except branch of the retry loop: back off and retry, or give up
AttemptFailed(t, err) ==
  IF attempt[t] < max_retries - 1
  THEN /\ last_error' = [last_error EXCEPT ![t] = err]
       /\ delays' = IF t = traced THEN Append(delays, WaitTime(attempt[t])) ELSE delays
       /\ attempt' = [attempt EXCEPT ![t] = attempt[t] + 1]
       /\ pc' = [pc EXCEPT ![t] = "call"]
       /\ UNCHANGED <<result, status, sem>>
  ELSE /\ Leave(t, <<>>, "failed")
       /\ UNCHANGED delays

Returned == {"ok", "no_records", "empty"}
Outcomes == Returned \cup {"openai_error", "other_error"}

\* the record of one litellm.acompletion call of the traced batch
Logged(t, model, outcome) ==
  IF t = traced THEN Append(call_log, [model |-> model, outcome |-> outcome]) ELSE call_log

\* one iteration of the retry loop up to the primary litellm.acompletion call
Primary(t, outcome) ==
  /\ stage = "running" /\ pc[t] = "call"
  /\ call_log' = Logged(t, "primary", outcome)
  /\ CASE outcome \in Returned ->
            /\ Completed(t, outcome)
            /\ UNCHANGED delays
       [] outcome = "openai_error" ->
            IF FallbackConfigured
            THEN /\ pc' = [pc EXCEPT ![t] = "fallback"]
                 /\ UNCHANGED <<attempt, last_error, delays, result, status, sem>>
            ELSE AttemptFailed(t, "primary")
       [] outcome = "other_error" -> AttemptFailed(t, "primary")
  /\ UNCHANGED <<docVars, mapperVars, inputVars, stage, batches, idx, traced, issued,
                 alloc, last_call, final_results, ppd_failed>>

\* _try_fallback: one call of the fallback model inside the same attempt
Fallback(t, outcome) ==
  /\ stage = "running" /\ pc[t] = "fallback"
  /\ call_log' = Logged(t, "fallback", outcome)
  /\ CASE outcome \in Returned ->
            /\ Completed(t, outcome)
            /\ UNCHANGED delays
       [] outcome = "openai_error" -> AttemptFailed(t, "primary")
       [] outcome = "other_error" -> AttemptFailed(t, "fallback")
  /\ UNCHANGED <<docVars, mapperVars, inputVars, stage, batches, idx, traced, issued,
                 alloc, last_call, final_results, ppd_failed>>

\* replace_fingerprints_in_results: async with self._lock
RfLock(t) ==
  /\ stage = "running" /\ pc[t] = "rf_lock"
  /\ LockFree(lock)
  /\ lock' = t
  /\ pc' = [pc EXCEPT ![t] = "rf_body"]
  /\ UNCHANGED <<docVars, map, reverse_map, current_char, inputVars, stage, batches, sem, idx, attempt,
                 last_error, result, status, callLog, issued, alloc, last_call,
                 final_results, ppd_failed>>

\* replace_fingerprints_in_results body on the records extracted from the
\* response, and the rest of process_batch
RfBody(t, results) ==
  /\ stage = "running" /\ pc[t] = "rf_body"
  /\ lock' = 0
  /\ Leave(t, replace_fingerprints_in_results(reverse_map, results, Batch(t)), "ok")
  /\ UNCHANGED <<docVars, map, reverse_map, current_char, inputVars, stage, batches, idx,
                 callLog, issued, alloc, last_call, final_results, ppd_failed>>

\* asyncio.gather has every batch result: extend, sort, return
Gather ==
  /\ stage = "running"
  /\ \A t \in Tasks : pc[t] = "done"
  /\ stage' = "done"
  /\ final_results' = FinalResults(result)
  /\ ppd_failed' = SortRaises(Flatten(result))
  /\ UNCHANGED <<docVars, mapperVars, inputVars, batches, sem, taskVars, callLog, issued, alloc, last_call>>

\* every step but the one that reads the records of the response
Sched ==
  \/ Start
  \/ \E t \in Tasks : SemAcquire(t)
  \/ \E t \in Tasks : GfLock(t)
  \/ \E t \in Tasks, xml_ok \in BOOLEAN : GfBody(t, xml_ok)
  \/ \E t \in Tasks, o \in Outcomes : Primary(t, o)
  \/ \E t \in Tasks, o \in Outcomes : Fallback(t, o)
  \/ \E t \in Tasks : RfLock(t)
  \/ Gather

\* the LLM may answer with any records
Next ==
  \/ Sched
  \/ \E t \in Tasks, results \in Responses : RfBody(t, results)

Spec == Init /\ [][Next]_vars

\* the answer of an LLM that scores every person of the batch under its token
Faithful(t) ==
  [i \in 1..Len(Batch(t)) |-> [id |-> map[Batch(t)[i]], nodeId |-> NoNode, score |-> 8]]

\* the same run with such an LLM: scheduling, locking and tokenizing do not
\* read the records
NextSched ==
  \/ Sched
  \/ \E t \in Tasks : RfBody(t, Faithful(t))

SpecSched == Init /\ [][NextSched]_vars

\* the same run when the event loop keeps running whatever is ready and
\* every LLM call returns or fails: a step that stays possible is taken
\* (the scheduling does not read who the people are: one list per length)
InitLive ==
  \E n \in 0..MaxPeople, bs \in 1..MaxBatchSize, mct \in 1..MaxConcurrent :
    InitWith([i \in 1..n |-> ((i - 1) % MaxId) + 1], bs, mct, 0)

SpecLive == InitLive /\ [][NextSched]_vars /\ WF_vars(NextSched)

\* a run of one batch whose LLM traffic is recorded
InitBatch ==
  \E bs \in 1..MaxBatchSize :
    \E ppl \in {q \in SeqsUpTo(Identities, MaxPeople) : 1 <= Len(q) /\ Len(q) <= bs} :
      InitWith(ppl, bs, 1, 1)

SpecBatch == InitBatch /\ [][Next]_vars

TypeOK ==
  /\ sem \in 0..max_concurrent_tasks
  /\ lock \in {0} \cup Tasks
  /\ \A t \in Tasks : attempt[t] \in 0..(max_retries - 1)

\* ---- a FingerprintMapper used by one caller at a time ----

\* the k-th name of the spreadsheet-column sequence a, ..., z, aa, ..., az, ba, ...
RECURSIVE Column(_)
Column(k) ==
  IF k <= Alphabet THEN Tok(k)
  ELSE Column((k - 1) \div Alphabet) \o <<((k - 1) % Alphabet) + 1>>

\* fingerprints looked up by callers of get_original_name
ProbeTokens == {Tok(1), Tok(2), <<1, 1>>, <<2, 1>>, <<1, 1, 1>>}

InitMapper == InitWith(<<>>, 1, 1, 0)

\* await get_fingerprint(name) run to completion.  Names are numbered in the
\* order of their first use: the next unseen name is Len(alloc) + 1; 0 is "".
CallGetFingerprint(name) ==
  /\ LockFree(lock)
  /\ \/ name = 0
     \/ name \in DOMAIN map
     \/ name = Len(alloc) + 1 /\ name <= MaxNames
  /\ IF name = 0
     THEN /\ last_call' = [op |-> "get_fingerprint", arg |-> name, ret |-> <<>>]
          /\ UNCHANGED <<map, reverse_map, current_char, issued, alloc>>
     ELSE /\ map' = MapAfter(map, current_char, name)
          /\ reverse_map' = ReverseAfter(map, reverse_map, current_char, name)
          /\ current_char' = CharAfter(map, current_char, name)
          /\ issued' = issued \cup {<<name, FingerprintOf(map, current_char, name)>>}
          /\ alloc' = IF name \in DOMAIN map THEN alloc ELSE Append(alloc, current_char)
          /\ last_call' = [op |-> "get_fingerprint", arg |-> name,
                           ret |-> FingerprintOf(map, current_char, name)]
  /\ UNCHANGED <<docVars, lock, inputVars, stage, batches, sem, taskVars, callLog, final_results,
                 ppd_failed>>

\* await get_original_name(fp)
CallGetOriginalName(fp) ==
  /\ last_call' = [op |-> "get_original_name", arg |-> fp,
                   ret |-> get_original_name(reverse_map, fp)]
  /\ UNCHANGED <<docVars, mapperVars, inputVars, stage, batches, sem, taskVars, callLog, issued, alloc,
                 final_results, ppd_failed>>

NextMapper ==
  \/ \E name \in 0..MaxNames : CallGetFingerprint(name)
  \/ \E fp \in ProbeTokens : CallGetOriginalName(fp)

SpecMapper == InitMapper /\ [][NextMapper]_vars

\* ---- chunk_list on its own ----
InitChunk ==
  \E lst \in SeqsUpTo(Identities, MaxChunkLen), cs \in 1..MaxChunkSize :
    InitWith(lst, cs, 1, 0)

SpecChunk == InitChunk /\ [][Start]_vars

\* ---- extract_score_data ----
\* A response text is a sequence of lexical items: the tags "<output>" and
\* "</output>", and elements [tag, text] standing for <tag>text</tag>, whose
\* text is a sequence of characters.

Dig == {"0", "1", "2", "3", "4", "5", "6", "7", "8", "9"}
DigVal(c) ==
  CASE c = "0" -> 0 [] c = "1" -> 1 [] c = "2" -> 2 [] c = "3" -> 3 [] c = "4" -> 4
    [] c = "5" -> 5 [] c = "6" -> 6 [] c = "7" -> 7 [] c = "8" -> 8 [] c = "9" -> 9

\* str.strip(chars)
RECURSIVE StripChars(_, _)
StripChars(v, cs) ==
  IF v = <<>> THEN v
  ELSE IF v[1] \in cs THEN StripChars(Tail(v), cs)
  ELSE IF Last(v) \in cs THEN StripChars(Front(v), cs)
  ELSE v

Whitespace == {" "}
Brackets == {"[", "]"}

LowerChar(c) ==
  CASE c = "N" -> "n" [] c = "U" -> "u" [] c = "L" -> "l" [] c = "O" -> "o" [] c = "E" -> "e"
    [] OTHER -> c
Lower(v) == [i \in DOMAIN v |-> LowerChar(v[i])]

\* the values a field of a record can hold: None, a number (in tenths), a string
None == [kind |-> "none", num |-> 0, str |-> <<>>]
Num(tenths) == [kind |-> "num", num |-> tenths, str |-> <<>>]
Str(v) == [kind |-> "str", num |-> 0, str |-> v]

RECURSIVE IntVal(_)
IntVal(v) == IF v = <<>> THEN 0 ELSE 10 * IntVal(Front(v)) + DigVal(Last(v))
AllDigits(v) == \A i \in DOMAIN v : v[i] \in Dig

\* float(text) for texts of digits with at most one fractional digit;
\* raises ValueError (FALSE in ok) for every other text of the samples
ParseFloat(text) ==
  LET v == StripChars(text, Whitespace)
      dots == {i \in DOMAIN v : v[i] = "."}
  IN IF v # <<>> /\ AllDigits(v) THEN [ok |-> TRUE, num |-> 10 * IntVal(v)]
     ELSE IF /\ Cardinality(dots) = 1
             /\ Len(v) >= 2
             /\ v[Len(v) - 1] = "."
             /\ AllDigits(SubSeq(v, 1, Len(v) - 2)) /\ Last(v) \in Dig
          THEN [ok |-> TRUE, num |-> 10 * IntVal(SubSeq(v, 1, Len(v) - 2)) + DigVal(Last(v))]
          ELSE [ok |-> FALSE, num |-> 0]

MatchTags == {"skillMatch", "locationMatch", "entityMatch", "databaseMatch", "sectorMatch"}
FieldTags == {"id"} \cup MatchTags \cup {"recommendationScore"}

convert_value(value, tag) ==
  IF value \in {<<"1">>, <<"[", "1", "]">>, <<"1", ".", "0">>} THEN Num(10)
  ELSE IF value \in {<<"0">>, <<"[", "0", "]">>, <<"0", ".", "0">>} THEN Num(0)
  ELSE IF value \in {<<"0", ".", "5">>, <<"[", "0", ".", "5", "]">>} THEN Num(5)
  ELSE IF Lower(value) \in {<<"n", "u", "l", "l">>, <<"[", "n", "u", "l", "l", "]">>,
                            <<"n", "o", "n", "e">>} THEN None
  ELSE IF tag = "recommendationScore" \/ tag \in MatchTags
       THEN LET f == ParseFloat(StripChars(value, Brackets))
            IN IF f.ok THEN Num(f.num) ELSE Num(0)
       ELSE Str(StripChars(StripChars(value, Brackets), Whitespace))

OpenTag == [tag |-> "<output>", text |-> <<>>]
CloseTag == [tag |-> "</output>", text |-> <<>>]
Element(tag, text) == [tag |-> tag, text |-> text]

\* extract_value: the first <tag>...</tag> of the region, stripped and converted
extract_value(output_text, tag) ==
  LET hits == {i \in DOMAIN output_text : output_text[i].tag = tag}
  IN IF hits = {}
     THEN IF tag \in MatchTags THEN None ELSE Str(<<>>)
     ELSE LET first == CHOOSE i \in hits : \A j \in hits : i <= j
          IN convert_value(StripChars(output_text[first].text, Whitespace), tag)

\* extract_skills_from_output
extract_skills_from_output(output_text) ==
  LET IsSkill(e) == e.tag = "skill"
  IN [i \in DOMAIN SelectSeq(output_text, IsSkill) |-> SelectSeq(output_text, IsSkill)[i].text]

\* the record built from one region
RecordOf(output_text) ==
  [id |-> extract_value(output_text, "id"),
   skillMatch |-> extract_value(output_text, "skillMatch"),
   locationMatch |-> extract_value(output_text, "locationMatch"),
   entityMatch |-> extract_value(output_text, "entityMatch"),
   databaseMatch |-> extract_value(output_text, "databaseMatch"),
   sectorMatch |-> extract_value(output_text, "sectorMatch"),
   recommendationScore |-> extract_value(output_text, "recommendationScore"),
   skills |-> extract_skills_from_output(output_text)]

Positions(text, tag, from) == {i \in from..Len(text) : text[i] = tag}
MinOf(S) == CHOOSE i \in S : \A j \in S : i <= j
MaxOf(S) == CHOOSE i \in S : \A j \in S : i >= j

\* a scan whose (.*) is greedy: one region up to the last </output>
RECURSIVE OutputsFrom_Greedy(_, _)
OutputsFrom_Greedy(text, from) ==
  LET opens == Positions(text, OpenTag, from)
  IN IF opens = {} THEN <<>>
     ELSE LET o == MinOf(opens)
              closes == Positions(text, CloseTag, o + 1)
          IN IF closes = {} THEN <<>>
             ELSE <<SubSeq(text, o + 1, MaxOf(closes) - 1)>>
                    \o OutputsFrom_Greedy(text, MaxOf(closes) + 1)

\* re.finditer(r'<output>\s*(.*?)\s*</output>', text, re.DOTALL) from item
\* `from` on: the leftmost <output>, then lazily up to the next </output>
RECURSIVE OutputsFrom(_, _)
OutputsFrom(text, from) ==
  LET opens == Positions(text, OpenTag, from)
  IN IF opens = {} THEN <<>>
     ELSE LET o == MinOf(opens)
              closes == Positions(text, CloseTag, o + 1)
          IN IF closes = {} THEN <<>>
             ELSE <<SubSeq(text, o + 1, MinOf(closes) - 1)>>
                    \o OutputsFrom(text, MinOf(closes) + 1)

\* a loop that an exception in one region ends
RECURSIVE ParseRegions_Abort(_, _, _)
ParseRegions_Abort(outputs, raising, i) ==
  IF i > Len(outputs) THEN <<>>
  ELSE IF i \in raising THEN <<>>
  ELSE <<RecordOf(outputs[i])>> \o ParseRegions_Abort(outputs, raising, i + 1)

\* the for loop over the regions from the i-th on; the regions in `raising`
\* raise inside the inner try and are skipped by continue
RECURSIVE ParseRegions(_, _, _)
ParseRegions(outputs, raising, i) ==
  IF i > Len(outputs) THEN <<>>
  ELSE IF i \in raising THEN ParseRegions(outputs, raising, i + 1)
  ELSE <<RecordOf(outputs[i])>> \o ParseRegions(outputs, raising, i + 1)

extract_score_data(response_text, raising) ==
  ParseRegions(OutputsFrom(response_text, 1), raising, 1)

\* ---- process_reasoning_request: the candidates of the search document ----
\* A candidate is [personId, similarity, score, ranked, reasoning]; its score
\* is Absent (no "score" key), None or a number in tenths.

Absent == [kind |-> "absent", num |-> 0, str |-> <<>>]
NoPerson == 0
NoReasoning ==
  [present |-> FALSE, summary |-> <<>>, highlights |-> <<>>, metadata |-> <<>>,
   reasoning_complete |-> FALSE]

\* result_copy.pop("personId", None)
PersonIdOf(r) == IF "personId" \in DOMAIN r THEN r.personId ELSE NoPerson

Ids(cands) == {cands[i].personId : i \in DOMAIN cands}

\* list({c["personId"]: c for c in cands}.values()): a repeated key keeps its
\* first position and its last value
RECURSIVE DictValues(_)
DictValues(cands) ==
  IF cands = <<>> THEN <<>>
  ELSE LET before == DictValues(Front(cands))
           c == Last(cands)
       IN IF c.personId \in Ids(before)
          THEN [i \in DOMAIN before |-> IF before[i].personId = c.personId THEN c ELSE before[i]]
          ELSE Append(before, c)

\* r.get("recommendationScore", 0) >= score_threshold on a score that is not
\* a number raises TypeError
FilterRaises(ranked_results) ==
  \E i \in DOMAIN ranked_results : ranked_results[i].recommendationScore.kind # "num"

AtOrAboveThreshold(r) == r.recommendationScore.num >= score_threshold
filtered_ranked(ranked_results) == SelectSeq(ranked_results, AtOrAboveThreshold)

\* variants of the overlay step: one adds an entry for a record that finds
\* no candidate, one writes the record's score to every candidate
OverlayOne_Append(cands, ranked) ==
  Append(cands, [personId |-> ranked.nodeId, similarity |-> 0,
                 score |-> ranked.recommendationScore, ranked |-> TRUE,
                 reasoning |-> NoReasoning])

OverlayOne_MarkAll(cands, ranked) ==
  [i \in DOMAIN cands |->
     [cands[i] EXCEPT !.score = ranked.recommendationScore, !.ranked = TRUE]]

\* the body of the overlay loop for one record
OverlayOne(cands, ranked) ==
  LET pid == PersonIdOf(ranked)
  IN IF pid = NoPerson \/ pid \notin Ids(cands) THEN cands
     ELSE [i \in DOMAIN cands |->
             IF cands[i].personId = pid
             THEN [cands[i] EXCEPT !.score = ranked.recommendationScore, !.ranked = TRUE]
             ELSE cands[i]]

RECURSIVE Overlay(_, _)
Overlay(cands, filtered) ==
  IF filtered = <<>> THEN cands
  ELSE OverlayOne(Overlay(cands, Front(filtered)), Last(filtered))

\* x.get("score", -1)
ScoreKey(c) == IF c.score.kind = "absent" THEN Num(default_score) ELSE c.score

\* sorted() compares the key tuples; comparing None with a number raises
CandSortRaises(cands) ==
  \E i \in DOMAIN cands, j \in DOMAIN cands : ScoreKey(cands[i]).kind # ScoreKey(cands[j]).kind

\* key(a) > key(b) for the key (score, similarity) or the key similarity
KeyGreater(by_score, a, b) ==
  IF by_score
  THEN \/ ScoreKey(a).num > ScoreKey(b).num
       \/ ScoreKey(a).num = ScoreKey(b).num /\ a.similarity > b.similarity
  ELSE a.similarity > b.similarity

RECURSIVE InsertCandidate(_, _, _)
InsertCandidate(by_score, sorted, c) ==
  IF sorted = <<>> THEN <<c>>
  ELSE IF ~KeyGreater(by_score, c, Last(sorted)) THEN Append(sorted, c)
  ELSE Append(InsertCandidate(by_score, Front(sorted), c), Last(sorted))

RECURSIVE InsertAscending(_, _, _)
InsertAscending(by_score, sorted, c) ==
  IF sorted = <<>> THEN <<c>>
  ELSE IF ~KeyGreater(by_score, Last(sorted), c) THEN Append(sorted, c)
  ELSE Append(InsertAscending(by_score, Front(sorted), c), Last(sorted))

RECURSIVE SortAscending(_, _)
SortAscending(by_score, cands) ==
  IF cands = <<>> THEN <<>>
  ELSE InsertAscending(by_score, SortAscending(by_score, Front(cands)), Last(cands))

Reverse(seq) == [i \in DOMAIN seq |-> seq[Len(seq) + 1 - i]]

\* sorted(...)[::-1] in place of reverse=True: equal keys come out reversed
SortCandidates_ThenReversed(by_score, cands) == Reverse(SortAscending(by_score, cands))

\* sorted(cands, key=..., reverse=True): descending, equal keys in input order
RECURSIVE SortCandidates(_, _)
SortCandidates(by_score, cands) ==
  IF cands = <<>> THEN <<>>
  ELSE InsertCandidate(by_score, SortCandidates(by_score, Front(cands)), Last(cands))

\* the ranking stage on the candidates read back from the document
RankStage(existing_candidates, ranked_results) ==
  IF FilterRaises(ranked_results)
  THEN [raised |-> TRUE, candidates |-> existing_candidates]
  ELSE LET overlaid == Overlay(DictValues(existing_candidates), filtered_ranked(ranked_results))
       IN IF CandSortRaises(overlaid)
          THEN [raised |-> TRUE, candidates |-> existing_candidates]
          ELSE [raised |-> FALSE, candidates |-> SortCandidates(TRUE, overlaid)]

\* the nodes handed to the reasoning stage
NodesOf(final_candidates) ==
  [i \in DOMAIN final_candidates |-> final_candidates[i].personId]
Take(seq, n) == SubSeq(seq, 1, Min(n, Len(seq)))

\* batch_analyze_profiles: one result per node; the analysis of the nodes in
\* errs failed
AnalysisResults(reasoning_nodes, errs) ==
  [i \in DOMAIN reasoning_nodes |->
     IF i \in errs
     THEN [nodeId |-> reasoning_nodes[i], error |-> TRUE, insights |-> <<>>, metadata |-> <<>>]
     ELSE [nodeId |-> reasoning_nodes[i], error |-> FALSE,
           insights |-> <<reasoning_nodes[i]>>, metadata |-> <<reasoning_nodes[i]>>]]

\* the keys of a result of process_single_node: an analysis is the dict of
\* parse_output with its nodeId, an error record has nodeId and error
ResultKeys(res) ==
  IF res.error THEN {"nodeId", "error"} ELSE {"insights", "metadata", "nodeId"}

\* result.get(key, default), the defaults being "", [] and {}
ResultGet(res, key) == IF key \in ResultKeys(res) THEN res[key] ELSE <<>>

\* the reasoning entry the handler builds from one result
ReasoningOf(res) ==
  [present |-> TRUE,
   summary |-> ResultGet(res, "summary"),
   highlights |-> ResultGet(res, "highlights"),
   metadata |-> ResultGet(res, "metadata"),
   reasoning_complete |-> ~res.error]

\* a reconciliation that rebuilds the candidate around the new reasoning
ReasonOne_Rebuild(cands, res) ==
  [i \in DOMAIN cands |->
     IF cands[i].personId = res.nodeId
     THEN [personId |-> cands[i].personId, similarity |-> cands[i].similarity,
           score |-> Absent, ranked |-> FALSE,
           reasoning |-> ReasoningOf(res)]
     ELSE cands[i]]

\* the body of the reasoning loop for one result
ReasonOne(cands, res) ==
  [i \in DOMAIN cands |->
     IF cands[i].personId = res.nodeId
     THEN [cands[i] EXCEPT !.reasoning = ReasoningOf(res)]
     ELSE cands[i]]

RECURSIVE ReasonAll(_, _)
ReasonAll(cands, results) ==
  IF results = <<>> THEN cands
  ELSE ReasonOne(ReasonAll(cands, Front(results)), Last(results))

\* the reasoning reconciliation on the candidates read back from the document
ReasoningStage(current_candidates, results) ==
  IF results = <<>> THEN current_candidates
  ELSE ReasonAll(DictValues(current_candidates), results)

\* the update of the except branch of process_reasoning_request
ErrorState_StatusOnly(doc) == [doc EXCEPT !.status = "ERROR"]

ErrorState(doc) ==
  [doc EXCEPT !.status = "ERROR", !.error = TRUE, !.events = doc.events + 1]

\* the except branch: the update is attempted, and an exception of the
\* update itself (db_error) is logged and dropped
ErrorBranch(doc, db_error) == IF db_error THEN doc ELSE ErrorState(doc)

\* the reply that ends an invocation before any stage runs; 0 when the
\* document passes the checks
Rejection_StatusUnchecked(doc) ==
  IF ~doc.exists THEN 404
  ELSE IF doc.candidates = <<>> THEN 400
  ELSE 0

Rejection(doc) ==
  IF ~doc.exists THEN 404
  ELSE IF doc.status # "SEARCH_COMPLETE" THEN 400
  ELSE IF doc.candidates = <<>> THEN 400
  ELSE 0

\* the collaborator whose call raises during an invocation
Faults == {"none", "build_candidate_materials", "batch_analyze_profiles", "update_one"}

\* one invocation for a searchId.  enriched: build_candidate_materials found
\* the profiles; ranked_results: what process_people_direct returns; errs,
\* top_k: the failing analyses and top_k_for_insights of the reasoning stage;
\* fault: the collaborator that raises; db_error: the update of the except
\* branch raises too.  calls: the LLM stages entered
process_reasoning_request(ranking_enabled, reasoning_enabled, enriched, ranked_results, errs, top_k, fault, db_error) ==
  LET doc == search_doc
      Reply(code, d, calls) ==
        /\ response' = code
        /\ search_doc' = d
        /\ last_call' = [op |-> "process_reasoning_request",
                         arg |-> [ranking_enabled |-> ranking_enabled,
                                  reasoning_enabled |-> reasoning_enabled,
                                  enriched |-> enriched,
                                  ranked_results |-> ranked_results,
                                  errs |-> errs, top_k |-> top_k, fault |-> fault,
                                  db_error |-> db_error,
                                  doc |-> doc,
                                  loaded |-> IF doc.exists THEN doc.candidates ELSE <<>>],
                         calls |-> calls,
                         ret |-> code]
  IN /\ IF Rejection(doc) # 0 THEN Reply(Rejection(doc), doc, {})
        ELSE IF fault = "build_candidate_materials" THEN Reply(500, ErrorBranch(doc, db_error), {})
        ELSE
          LET ranking ==
                IF ~enriched THEN [raised |-> FALSE, candidates |-> doc.candidates]
                ELSE IF ranking_enabled THEN RankStage(doc.candidates, ranked_results)
                ELSE [raised |-> FALSE, candidates |-> SortCandidates(FALSE, doc.candidates)]
              rank_calls == IF enriched /\ ranking_enabled THEN {"process_people_direct"} ELSE {}
              all_calls == IF reasoning_enabled
                           THEN rank_calls \cup {"batch_analyze_profiles"} ELSE rank_calls
              ranked_doc == [doc EXCEPT !.candidates = ranking.candidates,
                                        !.ranked = IF enriched THEN "unset" ELSE "empty"]
              results == IF reasoning_enabled
                         THEN AnalysisResults(Take(NodesOf(ranking.candidates), top_k), errs)
                         ELSE <<>>
              reasoned_doc == [ranked_doc EXCEPT
                                 !.candidates = ReasoningStage(ranking.candidates, results)]
          IN IF ranking.raised THEN Reply(500, ErrorBranch(doc, db_error), rank_calls)
             ELSE IF ~doc.query THEN Reply(400, ranked_doc, rank_calls)
             ELSE IF reasoning_enabled /\ fault = "batch_analyze_profiles"
                  THEN Reply(500, ErrorBranch(ranked_doc, db_error), all_calls)
             ELSE IF fault = "update_one" THEN Reply(500, ErrorBranch(reasoned_doc, db_error), all_calls)
             ELSE Reply(200, [reasoned_doc EXCEPT
                                !.reasoning = TRUE,
                                !.status = "RANK_AND_REASONING_COMPLETE",
                                !.events = doc.events + 1], all_calls)
     /\ UNCHANGED <<mapperVars, inputVars, stage, batches, sem, taskVars, callLog, issued, alloc,
                    final_results, ppd_failed, model_name>>

\* ---- the search documents and the inputs of an invocation ----
CandidateScores == {Absent, None, Num(50), Num(80)}
Similarities == {5, 9}
Candidates ==
  [personId : 1..MaxCandidates, similarity : Similarities, score : CandidateScores,
   ranked : {FALSE}, reasoning : {NoReasoning}]

\* candidate lists of the search stage: the persons 1..n, one entry each
CandidateLists ==
  {cands \in SeqsUpTo(Candidates, MaxCandidates) :
     \A i \in DOMAIN cands : cands[i].personId = i}

Docs ==
  {NoDoc} \cup
  [exists : {TRUE}, status : {"SEARCH_COMPLETE", "HYDE_COMPLETE"}, query : BOOLEAN,
   candidates : CandidateLists, ranked : {"unset", "list"}, reasoning : {FALSE},
   events : {0}, error : {FALSE}]

\* the records process_batch returns for resolved tokens
RankedRecords ==
  [nodeId : 1..MaxCandidates, recommendationScore : {None, Num(50), Num(80)}]

\* what process_people_direct can return: [] or sorted by score descending;
\* a None score only in a single record
RankedResults ==
  {rs \in SeqsUpTo(RankedRecords, MaxRanked) :
     /\ Len(rs) >= 2 => \A i \in DOMAIN rs : rs[i].recommendationScore.kind = "num"
     /\ \A i \in 1..(Len(rs) - 1) :
          rs[i].recommendationScore.num >= rs[i + 1].recommendationScore.num}

InitHandler ==
  /\ EngineInit(<<>>, 1, 1, 0)
  /\ search_doc \in Docs
  /\ response = 0 /\ model_name = "groq_llama"

\* an invocation with ranking only
NextRank ==
  /\ response = 0
  /\ \E enriched \in BOOLEAN, ranked_results \in RankedResults :
       process_reasoning_request(TRUE, FALSE, enriched, ranked_results, {}, top_k_default, "none", FALSE)

SpecRank == InitHandler /\ [][NextRank]_vars

\* an invocation with reasoning only
NextReason ==
  /\ response = 0
  /\ \E errs \in SUBSET (1..MaxCandidates), top_k \in {1, top_k_default} :
       process_reasoning_request(FALSE, TRUE, TRUE, <<>>, errs, top_k, "none", FALSE)

SpecReason == InitHandler /\ [][NextReason]_vars

\* one invocation with any flags, with or without a collaborator that raises
NextHandler ==
  /\ response = 0
  /\ \E ranking_enabled \in BOOLEAN, reasoning_enabled \in BOOLEAN, enriched \in BOOLEAN,
        ranked_results \in {rr \in RankedResults : Len(rr) <= 1},
        errs \in {{}, {1}}, fault \in Faults, db_error \in BOOLEAN :
       process_reasoning_request(ranking_enabled, reasoning_enabled, enriched, ranked_results,
                                 errs, top_k_default, fault, db_error)

SpecHandler == InitHandler /\ [][NextHandler]_vars

\* the exit code of the test harness for the document an invocation left
main(doc, ranking, reasoning) ==
  IF ~doc.exists THEN 1
  ELSE IF ranking /\ doc.ranked # "list" THEN 1
  ELSE IF reasoning /\ ~doc.reasoning THEN 1
  ELSE 0

\* ---- SearchReasoning.batch_analyze_profiles ----
\* The nodes are the sequence people (NoNode: a node without nodeId), task t
\* is process_single_node for the t-th node, sem is self.semaphore,
\* status[t] is what happened to the node, idx[t] the rank of its completion.

\* what the fetch and the conversion of a node come to
FetchOutcomes == {"ok", "not_found", "xml_error", "fetch_raises"}

AnalysisRecord(node_id) == [nodeId |-> node_id, error |-> "none", analysis |-> node_id]
ErrorRecord(node_id, message) == [nodeId |-> node_id, error |-> message, analysis |-> NoNode]

\* the record process_single_node returns without reaching analyze_profile
EarlyReturn(node_id, outcome) ==
  IF node_id = NoNode THEN ErrorRecord(NoNode, "Missing nodeId")
  ELSE IF outcome = "not_found" THEN ErrorRecord(node_id, "Node not found in data service")
  ELSE IF outcome = "xml_error" THEN ErrorRecord(node_id, "XML conversion error")
  ELSE ErrorRecord(node_id, "Unexpected error")

NodeTasks == DOMAIN people
Finished == Cardinality({u \in NodeTasks : pc[u] = "done"})

\* asyncio.Semaphore(max_concurrent_calls) and one task per node
batch_analyze_profiles ==
  /\ stage = "init"
  /\ stage' = "analyzing"
  /\ sem' = max_concurrent_tasks
  /\ pc' = [t \in NodeTasks |-> "sem"]
  /\ idx' = [t \in NodeTasks |-> 0]
  /\ result' = [t \in NodeTasks |-> ErrorRecord(NoNode, "pending")]
  /\ status' = [t \in NodeTasks |-> "pending"]
  /\ UNCHANGED <<docVars, mapperVars, inputVars, batches, attempt, last_error, callLog,
                 issued, alloc, last_call, final_results, ppd_failed>>

\* process_single_node from the semaphore to its first await: it returns an
\* error record at once, or holds the slot and awaits analyze_profile
process_single_node(t, outcome) ==
  /\ stage = "analyzing"
  /\ pc[t] = "sem"
  /\ SemCanAcquire(sem)
  /\ IF people[t] = NoNode \/ outcome # "ok"
     THEN /\ result' = [result EXCEPT ![t] = EarlyReturn(people[t], outcome)]
          /\ status' = [status EXCEPT ![t] = IF people[t] = NoNode THEN "missing" ELSE outcome]
          /\ pc' = [pc EXCEPT ![t] = "done"]
          /\ idx' = [idx EXCEPT ![t] = Finished + 1]
          /\ UNCHANGED sem
     ELSE /\ sem' = sem - 1
          /\ pc' = [pc EXCEPT ![t] = "analyze"]
          /\ UNCHANGED <<result, status, idx>>
  /\ UNCHANGED <<docVars, mapperVars, inputVars, stage, batches, attempt, last_error, callLog,
                 issued, alloc, last_call, final_results, ppd_failed>>

\* analyze_profile returns the analysis, or raises and the outer except of
\* process_single_node makes the error record; the slot is released
analyze_profile(t, raises) ==
  /\ stage = "analyzing"
  /\ pc[t] = "analyze"
  /\ result' = [result EXCEPT ![t] = IF raises THEN ErrorRecord(people[t], "Unexpected error")
                                     ELSE AnalysisRecord(people[t])]
  /\ status' = [status EXCEPT ![t] = IF raises THEN "analysis_raises" ELSE "ok"]
  /\ pc' = [pc EXCEPT ![t] = "done"]
  /\ idx' = [idx EXCEPT ![t] = Finished + 1]
  /\ sem' = sem + 1
  /\ UNCHANGED <<docVars, mapperVars, inputVars, stage, batches, attempt, last_error, callLog,
                 issued, alloc, last_call, final_results, ppd_failed>>

\* a gather that returns the records of the nodes that succeeded
gather_Successful(results) ==
  LET Ok(r) == r.error = "none"
  IN SelectSeq([i \in 1..Len(results) |-> results[i]], Ok)

\* asyncio.gather(*tasks): the results in the order of the tasks
gather(results) == [i \in 1..Len(results) |-> results[i]]

GatherNodes ==
  /\ stage = "analyzing"
  /\ \A t \in NodeTasks : pc[t] = "done"
  /\ stage' = "analyzed"
  /\ final_results' = gather(result)
  /\ UNCHANGED <<docVars, mapperVars, inputVars, batches, sem, taskVars, callLog, issued,
                 alloc, last_call, ppd_failed>>

Nodes == SeqsUpTo({NoNode} \cup Identities, MaxNodes)

InitAnalyze ==
  \E nodes \in Nodes, mcc \in 1..MaxConcurrent : InitWith(nodes, 1, mcc, 0)

NextAnalyze ==
  \/ batch_analyze_profiles
  \/ \E t \in NodeTasks, outcome \in FetchOutcomes : process_single_node(t, outcome)
  \/ \E t \in NodeTasks, raises \in BOOLEAN : analyze_profile(t, raises)
  \/ GatherNodes

SpecAnalyze == InitAnalyze /\ [][NextAnalyze]_vars

\* ---- convert_hyde_details_to_xml ----
\* details gives, for every dimension, its list of items, its operator and
\* its temporal qualifier ("absent": the key is not in the dict); NoDetails
\* is None.  An XML element is [tag, operator, temporal, children].

\* the dimensions in the order their blocks are emitted
Dimensions == <<"locations", "organizations", "skills", "db_queries", "sectors">>
DimensionSet == {Dimensions[i] : i \in DOMAIN Dimensions}
NoDetails == [present |-> FALSE]

BlockTag(d) == IF d = "db_queries" THEN "database_queries" ELSE d
ItemTag(d) ==
  CASE d = "locations" -> "location"
    [] d = "organizations" -> "organization"
    [] d = "skills" -> "skill"
    [] d = "db_queries" -> "query"
    [] d = "sectors" -> "sector"

\* details.get("<dimension>_operator", default)
DefaultOperator(d) == IF d = "sectors" THEN "OR" ELSE "AND"
OperatorOf(details, d) ==
  IF details.operator[d] = "absent" THEN DefaultOperator(d) ELSE details.operator[d]

\* the temporal attribute of a block ("absent": none)
TemporalOf(details, d) ==
  IF d \in {"organizations", "sectors"} /\ details.temporal[d] \notin {"absent", ""}
  THEN details.temporal[d]
  ELSE "absent"

\* a block for every dimension, with or without items
HasItems_Always(details, d) == TRUE

\* if details.get("<dimension>")
HasItems(details, d) == details.items[d] # <<>>

Block(details, d) ==
  [tag |-> BlockTag(d), operator |-> OperatorOf(details, d), temporal |-> TemporalOf(details, d),
   children |-> [i \in DOMAIN details.items[d] |->
                   [tag |-> ItemTag(d), text |-> details.items[d][i]]]]

RECURSIVE Blocks(_, _)
Blocks(details, n) ==
  IF n = 0 THEN <<>>
  ELSE Blocks(details, n - 1)
         \o (IF HasItems(details, Dimensions[n]) THEN <<Block(details, Dimensions[n])>> ELSE <<>>)

EmptyHydeAnalysis == [tag |-> "hyde_analysis", children |-> <<>>]

convert_hyde_details_to_xml(details) ==
  IF ~details.present THEN EmptyHydeAnalysis
  ELSE IF Blocks(details, Len(Dimensions)) = <<>> THEN EmptyHydeAnalysis
  ELSE [tag |-> "hyde_analysis", children |-> Blocks(details, Len(Dimensions))]

HydeItems == SeqsUpTo({"x"}, MaxItems)
Temporals(d) == IF d = "organizations" THEN {"absent", "", "past"} ELSE {"absent", "past"}
HydeDetails ==
  {NoDetails} \cup
  {det \in [present : {TRUE}, items : [DimensionSet -> HydeItems],
            operator : [DimensionSet -> {"absent", "OR"}],
            temporal : [DimensionSet -> {"absent", "", "past"}]] :
     \A d \in DimensionSet : det.temporal[d] \in Temporals(d)}

InitHyde == InitWith(<<>>, 1, 1, 0)

\* convert_hyde_details_to_xml(details); the function keeps no state between
\* calls, so a run makes one call
CallConvertHyde(details) ==
  /\ last_call' = [op |-> "convert_hyde_details_to_xml", arg |-> details,
                   ret |-> convert_hyde_details_to_xml(details)]
  /\ UNCHANGED <<docVars, mapperVars, inputVars, stage, batches, sem, taskVars, callLog,
                 issued, alloc, final_results, ppd_failed>>

NextHyde ==
  /\ last_call.op = "none"
  /\ \E details \in HydeDetails : CallConvertHyde(details)

SpecHyde == InitHyde /\ [][NextHyde]_vars

\* ---- SearchReasoningParser ----
\* The content is a sequence of the lexical items of extract_score_data: a
\* tag on its own, or an element [tag, text] standing for <tag>text</tag>.
\* A content that is no string (None) has string = FALSE.

TagItem(name) == [tag |-> name, text |-> <<>>]

\* finditer that yields its matches last to first
RECURSIVE FindAll_Reversed(_, _, _, _)
FindAll_Reversed(text, open, close, from) ==
  LET opens == Positions(text, TagItem(open), from)
  IN IF opens = {} THEN <<>>
     ELSE LET o == MinOf(opens)
              closes == Positions(text, TagItem(close), o + 1)
          IN IF closes = {} THEN <<>>
             ELSE FindAll_Reversed(text, open, close, MinOf(closes) + 1)
                    \o <<SubSeq(text, o + 1, MinOf(closes) - 1)>>

\* re.finditer(r'<open>(.*?)</open>', text, re.DOTALL): the regions between
\* an opening tag and the next closing tag, left to right
RECURSIVE FindAll(_, _, _, _)
FindAll(text, open, close, from) ==
  LET opens == Positions(text, TagItem(open), from)
  IN IF opens = {} THEN <<>>
     ELSE LET o == MinOf(opens)
              closes == Positions(text, TagItem(close), o + 1)
          IN IF closes = {} THEN <<>>
             ELSE <<SubSeq(text, o + 1, MinOf(closes) - 1)>>
                    \o FindAll(text, open, close, MinOf(closes) + 1)

\* re.search(r'<tag>(.*?)</tag>', text): the text of the first element
\* with that tag; found = FALSE when there is none
SearchElement(text, tag) ==
  LET hits == {i \in DOMAIN text : text[i].tag = tag /\ text[i].text # <<>>}
  IN IF hits = {} THEN [found |-> FALSE, text |-> <<>>]
     ELSE [found |-> TRUE, text |-> text[MinOf(hits)].text]

\* extract_between_tags: the last <output> region, or the text itself
extract_between_tags(text) ==
  LET matches == FindAll(text, "<output>", "</output>", 1)
  IN IF matches # <<>> THEN matches[Len(matches)] ELSE text

\* parse_insight: a dict of the child elements, a later one replacing an
\* earlier one with the same tag
parse_insight(insight_text) ==
  LET elems == {i \in DOMAIN insight_text : insight_text[i].text # <<>>}
      tags == {insight_text[i].tag : i \in elems}
  IN [t \in tags |-> insight_text[MaxOf({i \in elems : insight_text[i].tag = t})].text]

PointsOf(key_points) ==
  LET IsPoint(e) == e.tag = "point" /\ e.text # <<>>
  IN [i \in DOMAIN SelectSeq(key_points, IsPoint) |-> SelectSeq(key_points, IsPoint)[i].text]

parse_role_indicator(indicator_text) ==
  LET key_points == FindAll(indicator_text, "<keyPoints>", "</keyPoints>", 1)
  IN [title |-> SearchElement(indicator_text, "title").text,
      rating |-> SearchElement(indicator_text, "rating").text,
      keyPoints |-> IF key_points = <<>> THEN <<>> ELSE PointsOf(key_points[1])]

EmptyMetadata == [roleFitIndicator |-> None, roleIndicators |-> <<>>]

parse_metadata(metadata_content) ==
  LET role_fit == SearchElement(metadata_content, "roleFitIndicator")
      role_indicators == FindAll(metadata_content, "<roleIndicators>", "</roleIndicators>", 1)
      indicators == IF role_indicators = <<>> THEN <<>>
                    ELSE FindAll(role_indicators[1], "<indicator>", "</indicator>", 1)
  IN [roleFitIndicator |-> IF role_fit.found THEN Str(role_fit.text) ELSE None,
      roleIndicators |-> [i \in DOMAIN indicators |-> parse_role_indicator(indicators[i])]]

\* the insights of the first <insights> region whose dict is not empty
ParsedInsights(output_content) ==
  LET insights_match == FindAll(output_content, "<insights>", "</insights>", 1)
      insights == IF insights_match = <<>> THEN <<>>
                  ELSE FindAll(insights_match[1], "<insight>", "</insight>", 1)
      parsed == [i \in DOMAIN insights |-> parse_insight(insights[i])]
      NonEmpty(d) == DOMAIN d # {}
  IN SelectSeq(parsed, NonEmpty)

EmptyParse == [insights |-> <<>>, metadata |-> EmptyMetadata]

\* parse_output; raised: the except branch made the result
parse_output(content) ==
  IF ~content.string THEN [raised |-> TRUE, value |-> EmptyParse]
  ELSE IF extract_between_tags(content.text) = <<>> THEN [raised |-> TRUE, value |-> EmptyParse]
  ELSE LET output_content == extract_between_tags(content.text)
       IN [raised |-> FALSE,
           value |-> [insights |-> ParsedInsights(output_content),
                      metadata |-> parse_metadata(output_content)]]

\* ---- the responses of the reasoning model ----
Titles == {<<"a">>, <<"b">>}
InsightBodies == {<<>>} \cup {<<Element("title", t)>> : t \in Titles}
InsightBlock(body) == <<TagItem("<insight>")>> \o body \o <<TagItem("</insight>")>>
PointLists == {<<>>, <<"p">>, <<"p", "q">>, <<"q", "p">>}
IndicatorBlock(points) ==
  <<TagItem("<indicator>"), Element("title", <<"t">>), TagItem("<keyPoints>")>>
    \o [i \in DOMAIN points |-> Element("point", <<points[i]>>)]
    \o <<TagItem("</keyPoints>"), TagItem("</indicator>")>>

RECURSIVE Concat(_)
Concat(seqs) == IF seqs = <<>> THEN <<>> ELSE Concat(Front(seqs)) \o Last(seqs)

\* the text of a response with these insight bodies, role fit and key points
ReasoningText(bodies, role_fit, points, wrapped) ==
  LET inner ==
        <<TagItem("<insights>")>>
          \o Concat([i \in DOMAIN bodies |-> InsightBlock(bodies[i])])
          \o <<TagItem("</insights>")>>
          \o (IF role_fit = <<>> THEN <<>> ELSE <<Element("roleFitIndicator", role_fit)>>)
          \o <<TagItem("<roleIndicators>")>>
          \o Concat([i \in DOMAIN points |-> IndicatorBlock(points[i])])
          \o <<TagItem("</roleIndicators>")>>
  IN IF wrapped THEN <<TagItem("<output>")>> \o inner \o <<TagItem("</output>")>> ELSE inner

ReasoningParts ==
  [bodies : SeqsUpTo(InsightBodies, MaxInsights), role_fit : {<<>>, <<"h">>},
   points : SeqsUpTo(PointLists, MaxIndicators), wrapped : BOOLEAN]

ContentOf(parts) ==
  [string |-> TRUE,
   text |-> ReasoningText(parts.bodies, parts.role_fit, parts.points, parts.wrapped)]

\* contents that cannot be parsed: None, the empty text, an empty <output>
BrokenContents ==
  {[string |-> FALSE, text |-> <<>>], [string |-> TRUE, text |-> <<>>],
   [string |-> TRUE, text |-> <<TagItem("<output>"), TagItem("</output>")>>]}

InitReasoningParse == InitWith(<<>>, 1, 1, 0)

\* parser.parse_output(content); parts: what the text was written from
CallParseOutput(content, parts) ==
  /\ last_call' = [op |-> "parse_output", arg |-> [content |-> content, parts |-> parts],
                   ret |-> parse_output(content)]
  /\ UNCHANGED <<docVars, mapperVars, inputVars, stage, batches, sem, taskVars, callLog,
                 issued, alloc, final_results, ppd_failed>>

NextReasoningParse ==
  /\ last_call.op = "none"
  /\ \/ \E parts \in ReasoningParts : CallParseOutput(ContentOf(parts), parts)
     \/ \E content \in BrokenContents :
          CallParseOutput(content, [bodies |-> <<>>, role_fit |-> <<>>, points |-> <<>>,
                                    wrapped |-> FALSE])

SpecReasoningParse == InitReasoningParse /\ [][NextReasoningParse]_vars

\* ---- retry_on_empty_result ----
\* model_name is the attribute of the instance the decorated method belongs
\* to (has_attr: it has one); outcomes[k] is what the k-th call of the
\* decorated function comes to: a non-empty result, an empty one, or a raise.

FuncOutcomes == {"value", "empty", "raise"}
ModelNames == {"groq_llama", "anthropic_haiku"}

\* the first call among lo..hi that returns a non-empty result (0: none)
FirstValue(outcomes, lo, hi) ==
  IF \E k \in lo..hi : outcomes[k] = "value"
  THEN MinOf({k \in lo..hi : outcomes[k] = "value"})
  ELSE 0

\* what the wrapper comes to and the model_name it leaves
wrapper(original_model, has_attr, outcomes) ==
  LET n == decorator_max_retries
      first == FirstValue(outcomes, 1, n)
      fallback == FirstValue(outcomes, n + 1, 2 * n)
  IN IF first # 0
     THEN [outcome |-> "value", calls |-> first, model_name |-> original_model]
     ELSE IF ~has_attr
     THEN [outcome |-> IF \A k \in 1..n : outcomes[k] = "raise" THEN "raise" ELSE "empty",
           calls |-> n, model_name |-> original_model]
     ELSE IF fallback # 0
     THEN [outcome |-> "value", calls |-> fallback, model_name |-> "anthropic_haiku"]
     ELSE [outcome |-> outcomes[2 * n], calls |-> 2 * n, model_name |-> original_model]

InitRetry ==
  /\ EngineInit(<<>>, 1, 1, 0)
  /\ search_doc = NoDoc /\ response = 0
  /\ model_name \in ModelNames

\* one call of a decorated method, run to its end
CallWrapper(has_attr, outcomes) ==
  /\ model_name' = wrapper(model_name, has_attr, outcomes).model_name
  /\ last_call' = [op |-> "wrapper",
                   arg |-> [has_attr |-> has_attr, outcomes |-> outcomes,
                            model_name |-> model_name],
                   ret |-> wrapper(model_name, has_attr, outcomes)]
  /\ UNCHANGED <<search_doc, response, mapperVars, inputVars, stage, batches, sem, taskVars,
                 callLog, issued, alloc, final_results, ppd_failed>>

NextRetry ==
  /\ last_call.op = "none"
  /\ \E has_attr \in BOOLEAN, outcomes \in [1..(2 * decorator_max_retries) -> FuncOutcomes] :
       CallWrapper(has_attr, outcomes)

SpecRetry == InitRetry /\ [][NextRetry]_vars

\* ---- invocations of process_reasoning_request on one searchId ----
\* Each invocation runs in its own process; the document is shared and every
\* find_one and update_one is one step.  pc[i] is the position of invocation
\* i, result[i] the candidates it read back, status[i] its reply (0: none).
\* The invocations rank (ranking enabled, profiles found, no record applied)
\* and do not reason.

Invocations == 1..MaxInvocations

\* the invocations arrive
Arrive ==
  /\ stage = "init"
  /\ stage' = "serving"
  /\ pc' = [i \in Invocations |-> "start"]
  /\ status' = [i \in Invocations |-> 0]
  /\ result' = [i \in Invocations |-> <<>>]
  /\ UNCHANGED <<docVars, mapperVars, inputVars, batches, sem, idx, attempt, last_error,
                 callLog, issued, alloc, last_call, final_results, ppd_failed>>

InvocationFrame ==
  UNCHANGED <<response, model_name, mapperVars, inputVars, stage, batches, sem, idx, attempt,
              last_error, callLog, issued, alloc, last_call, final_results, ppd_failed>>

\* find_one and the checks of the document
CheckDocument(i) ==
  /\ stage = "serving" /\ pc[i] = "start"
  /\ IF Rejection(search_doc) # 0
     THEN /\ pc' = [pc EXCEPT ![i] = "done"]
          /\ status' = [status EXCEPT ![i] = Rejection(search_doc)]
     ELSE /\ pc' = [pc EXCEPT ![i] = "passed"]
          /\ UNCHANGED status
  /\ UNCHANGED <<search_doc, result>>
  /\ InvocationFrame

\* after the ranking: find_one that reads the candidates back
ReadCandidates(i) ==
  /\ stage = "serving" /\ pc[i] = "passed"
  /\ result' = [result EXCEPT ![i] = search_doc.candidates]
  /\ pc' = [pc EXCEPT ![i] = "read"]
  /\ UNCHANGED <<search_doc, status>>
  /\ InvocationFrame

\* the sort and the update_one that writes the candidates, or the except
\* branch when the sort raises; then the check of the query
WriteCandidates(i) ==
  /\ stage = "serving" /\ pc[i] = "read"
  /\ LET ranking == RankStage(result[i], <<>>)
     IN IF ranking.raised
        THEN /\ search_doc' = ErrorState(search_doc)
             /\ pc' = [pc EXCEPT ![i] = "done"]
             /\ status' = [status EXCEPT ![i] = 500]
        ELSE /\ search_doc' = [search_doc EXCEPT !.candidates = ranking.candidates,
                                                 !.ranked = "unset"]
             /\ IF search_doc.query
                THEN pc' = [pc EXCEPT ![i] = "written"] /\ UNCHANGED status
                ELSE /\ pc' = [pc EXCEPT ![i] = "done"]
                     /\ status' = [status EXCEPT ![i] = 400]
  /\ UNCHANGED result
  /\ InvocationFrame

\* the final update_one, or the except branch when it raises
FinalUpdate(i, raises) ==
  /\ stage = "serving" /\ pc[i] = "written"
  /\ search_doc' = IF raises THEN ErrorState(search_doc)
                   ELSE [search_doc EXCEPT !.reasoning = TRUE,
                                           !.status = "RANK_AND_REASONING_COMPLETE",
                                           !.events = search_doc.events + 1]
  /\ pc' = [pc EXCEPT ![i] = "done"]
  /\ status' = [status EXCEPT ![i] = IF raises THEN 500 ELSE 200]
  /\ UNCHANGED result
  /\ InvocationFrame

InitInvocations ==
  /\ EngineInit(<<>>, 1, 1, 0)
  /\ search_doc \in Docs
  /\ response = 0 /\ model_name = "groq_llama"

NextInvocations ==
  \/ Arrive
  \/ \E i \in Invocations : CheckDocument(i)
  \/ \E i \in Invocations : ReadCandidates(i)
  \/ \E i \in Invocations : WriteCandidates(i)
  \/ \E i \in Invocations, raises \in BOOLEAN : FinalUpdate(i, raises)

SpecInvocations == InitInvocations /\ [][NextInvocations]_vars

\* ---- extract_score_data on its own ----
IdA == Element("id", <<"a">>)
IdB == Element("id", <<"b">>)
Score7 == Element("recommendationScore", <<"7">>)
Bodies == SeqsUpTo({IdA, IdB, Score7}, MaxBodyLen)
WellFormed(body) == <<OpenTag>> \o body \o <<CloseTag>>
Unclosed(body) == <<OpenTag>> \o body

\* two well-formed blocks and one block without its closing tag at position p
ThreeBlocks(p, b1, b2, b3) ==
  (IF p = 1 THEN Unclosed(b1) ELSE WellFormed(b1))
    \o (IF p = 2 THEN Unclosed(b2) ELSE WellFormed(b2))
    \o (IF p = 3 THEN Unclosed(b3) ELSE WellFormed(b3))
ThreeBlockTexts == {ThreeBlocks(p, b1, b2, b3) : p \in 1..3, b1 \in Bodies, b2 \in Bodies, b3 \in Bodies}

\* texts between the tags of a field
SampleValues ==
  {<<"0">>, <<"[", "0", "]">>, <<"0", ".", "0">>,
   <<"0", ".", "5">>, <<"[", "0", ".", "5", "]">>,
   <<"1">>, <<"[", "1", "]">>, <<"1", ".", "0">>, <<" ", "1", " ">>,
   <<"n", "u", "l", "l">>, <<"N", "U", "L", "L">>, <<"[", "n", "u", "l", "l", "]">>,
   <<"n", "o", "n", "e">>, <<"N", "o", "n", "e">>,
   <<"7">>, <<"7", ".", "5">>, <<"[", "7", ".", "5", "]">>, <<"[", " ", "7", " ", "]">>,
   <<"x">>, <<" ", "[", "x", " ", "y", "]", " ">>, <<"[", "]">>, <<>>}

\* one block with one field, or with none
FieldTexts ==
  {WellFormed(<<Element(tag, v)>>) : tag \in FieldTags, v \in SampleValues}
    \cup {WellFormed(<<>>)}

\* any short text of tags and elements
AnyTexts == SeqsUpTo({OpenTag, CloseTag, IdA, Score7}, MaxTextLen)

\* three well-formed blocks
ClosedBlockTexts ==
  {WellFormed(b1) \o WellFormed(b2) \o WellFormed(b3) : b1 \in Bodies, b2 \in Bodies, b3 \in Bodies}

ParseInputs == ThreeBlockTexts \cup ClosedBlockTexts \cup FieldTexts \cup AnyTexts

InitParse == InitWith(<<>>, 1, 1, 0)

\* await extract_score_data(response_text); the regions in `raising` are the
\* ones whose processing raises inside the inner try.  The function keeps no
\* state between calls, so a run makes one call.
CallExtractScoreData(response_text, raising) ==
  /\ last_call.op = "none"
  /\ last_call' = [op |-> "extract_score_data",
                   arg |-> [text |-> response_text, raising |-> raising],
                   ret |-> extract_score_data(response_text, raising)]
  /\ UNCHANGED <<docVars, mapperVars, inputVars, stage, batches, sem, taskVars, callLog, issued, alloc,
                 final_results, ppd_failed>>

NextParse ==
  /\ last_call.op = "none"
  /\ \E response_text \in ParseInputs :
       \E raising \in SUBSET (1..Len(OutputsFrom(response_text, 1))) :
         CallExtractScoreData(response_text, raising)

SpecParse == InitParse /\ [][NextParse]_vars

\* ---- properties ----
Range(f) == {f[x] : x \in DOMAIN f}
Inside == {t \in Tasks : pc[t] \notin {"sem", "done"}}
Tokenized(t) == pc[t] \in {"call", "fallback", "rf_lock", "rf_body", "done"} /\ status[t] # "xml_failed"

C2_TokensAreColumnNames ==
  \A k \in 1..Len(alloc) : alloc[k] = Column(k)

\* C3: the forward map and the reverse map are mutually inverse: no two
\* identities hold the same token and every reverse entry maps back to the
\* identity whose forward entry is that token.
C3_MapsMutuallyInverse ==
  /\ \A n1 \in DOMAIN map, n2 \in DOMAIN map : map[n1] = map[n2] => n1 = n2
  /\ DOMAIN reverse_map = Range(map)
  /\ \A n \in DOMAIN map : reverse_map[map[n]] = n
  /\ \A fp \in DOMAIN reverse_map : reverse_map[fp] \in DOMAIN map /\ map[reverse_map[fp]] = fp

\* two batches that are both still running have tokenized different identities
C3_Witness ==
  /\ Cardinality(DOMAIN map) >= 2
  /\ \E t \in Tasks, u \in Tasks :
       /\ t # u /\ Tokenized(t) /\ Tokenized(u)
       /\ pc[t] # "done" /\ pc[u] # "done"
       /\ Range(Batch(t)) \cap Range(Batch(u)) = {}

\* C4: get_original_name on a token that was never allocated returns the
\* not-found value and changes neither map nor the allocation cursor.
C4_ResolveUnknownIsPure ==
  [][(last_call'.op = "get_original_name")
       => /\ UNCHANGED <<map, reverse_map, current_char, lock>>
          /\ (\A k \in 1..Len(alloc) : alloc[k] # last_call'.arg) => last_call'.ret = NotFound]_vars

\* a never-allocated token was looked up on a mapper that holds mappings
C4_Witness ==
  /\ last_call.op = "get_original_name"
  /\ last_call.ret = NotFound
  /\ Len(alloc) >= 2
  /\ \A k \in 1..Len(alloc) : alloc[k] # last_call.arg

\* C7: chunk_list gives ceil(N/B) batches of 1..B members each, all but the
\* last of exactly B, whose concatenation is the input list.
C7_ChunksPartitionInput ==
  stage # "init" =>
    /\ Len(batches) = (Len(people) + batch_size - 1) \div batch_size
    /\ \A k \in 1..Len(batches) : 1 <= Len(batches[k]) /\ Len(batches[k]) <= batch_size
    /\ \A k \in 1..(Len(batches) - 1) : Len(batches[k]) = batch_size
    /\ Flatten(batches) = people

\* a list was split into several batches, the last one shorter than the rest
C7_Witness ==
  /\ stage # "init"
  /\ Len(batches) >= 2
  /\ Len(batches[Len(batches)]) < batch_size

\* C5: a score record whose token cannot be resolved (unknown token, or a
\* token of an identity outside the batch) is not contained in the list a
\* batch returns nor in the result of process_people_direct.
C5_UnresolvedDiscarded ==
  /\ \A t \in Tasks : pc[t] = "done" =>
       \A i \in 1..Len(result[t]) : result[t][i].nodeId \in Range(Batch(t))
  /\ stage = "done" =>
       \A i \in 1..Len(final_results) : final_results[i].nodeId \in Range(people)

\* C6: no record in the output of process_people_direct carries an identity
\* token in its 'id' field.
C6_NoTokenInOutput ==
  stage = "done" => \A i \in 1..Len(final_results) : final_results[i].id = NoKeyId

\* C8: at most max_concurrent_tasks batches are inside process_batch.
C8_AtMostMaxConcurrentInside ==
  Cardinality(Inside) <= max_concurrent_tasks

\* with one slot, a batch is inside process_batch after another batch has
\* left it by failure
C8_Witness ==
  /\ max_concurrent_tasks = 1
  /\ Cardinality(Inside) = 1
  /\ \E u \in Tasks : pc[u] = "done" /\ status[u] = "failed"

Failed(t) == status[t] \in {"failed", "xml_failed"}
Contains(seq, r) == \E j \in 1..Len(seq) : seq[j] = r

\* C9: a batch that failed contributes an empty result, and every record of
\* every other batch is in the result of process_people_direct.
C9_FailureIsolated ==
  stage = "done" =>
    \A t \in Tasks : Failed(t) =>
      /\ result[t] = <<>>
      /\ \A u \in Tasks \ {t} :
           \A i \in 1..Len(result[u]) : Contains(final_results, result[u][i])

IsPrimary(e) == e.model = "primary"
IsFallback(e) == e.model = "fallback"

\* C10: when the provider fails on attempts 1 and 2 and succeeds on attempt
\* 3, exactly the delays 1s and 2s were slept and no fallback call was made.
C10_TwoDelaysNoFallback ==
  LET prim == SelectSeq(call_log, IsPrimary)
  IN (/\ Len(prim) = 3
      /\ prim[1].outcome \notin Returned
      /\ prim[2].outcome \notin Returned
      /\ prim[3].outcome \in Returned)
     => /\ delays = <<1, 2>>
        /\ SelectSeq(call_log, IsFallback) = <<>>

FallbackCalls == {i \in 1..Len(call_log) : IsFallback(call_log[i])}
FailedPrimariesBefore(i) ==
  {j \in 1..(i - 1) : IsPrimary(call_log[j]) /\ call_log[j].outcome \notin Returned}

\* C11: the fallback model is called only after max_retries failed primary
\* calls and at most once per batch, so a batch issues at most max_retries
\* primary calls plus one fallback call.
C11_FallbackOnlyAfterRetries ==
  /\ Cardinality(FallbackCalls) <= 1
  /\ \A i \in FallbackCalls : Cardinality(FailedPrimariesBefore(i)) = max_retries
  /\ Len(SelectSeq(call_log, IsPrimary)) <= max_retries

\* C12: when the primary call and the fallback call of one get_completion
\* both failed, the error that reaches the retry loop is the primary call's.
C12_OriginalErrorPropagated ==
  \A t \in Tasks : last_error[t] \in {"none", "primary"}

\* the calls of the log that ended an attempt of the retry loop by an error
AttemptEndingFailures ==
  {j \in 1..Len(call_log) :
     \/ IsPrimary(call_log[j]) /\ call_log[j].outcome = "other_error"
     \/ IsFallback(call_log[j]) /\ call_log[j].outcome \notin Returned}

\* C13: a call that returns an empty body is the last call of its batch: the
\* batch is left with zero records, and no delay was slept but the ones after
\* the failed attempts before it.
C13_EmptyBodyNotRetried ==
  \A i \in 1..Len(call_log) :
    call_log[i].outcome = "empty" =>
      /\ i = Len(call_log)
      /\ pc[traced] = "done" /\ result[traced] = <<>> /\ status[traced] = "empty_body"
      /\ Len(delays) = Cardinality(AttemptEndingFailures)
      /\ Len(delays) <= max_retries - 1

\* the primary model answered with an empty body on a later attempt
C13_Witness ==
  /\ Len(call_log) >= 2
  /\ call_log[Len(call_log)] = [model |-> "primary", outcome |-> "empty"]
  /\ delays # <<>>
  /\ pc[traced] = "done"

Parsed == last_call.op = "extract_score_data"

\* C14: for a text of two well-formed <output> blocks and one <output> block
\* without closing tag, at any of the three positions, extract_score_data
\* returns exactly two records (and returns: no region raised).
C14_TwoRecordsOfThreeBlocks ==
  (/\ Parsed
   /\ last_call.arg.text \in ThreeBlockTexts
   /\ last_call.arg.raising = {})
    => Len(last_call.ret) = 2

\* the block without closing tag came first, and the two records returned
\* carry different ids
C14_Witness ==
  /\ Parsed
  /\ last_call.arg.raising = {}
  /\ last_call.arg.text = ThreeBlocks(1, <<IdA>>, <<IdA>>, <<IdB>>)
  /\ Len(last_call.ret) = 2
  /\ last_call.ret[1].id # last_call.ret[2].id

\* the regions of a text that did not raise, in source order
RECURSIVE Survivors(_, _)
Survivors(outputs, raising) ==
  IF outputs = <<>> THEN <<>>
  ELSE Survivors(Front(outputs), raising)
         \o (IF Len(outputs) \in raising THEN <<>> ELSE <<Last(outputs)>>)

\* C15: when regions of a response raise while they are processed, the
\* function returns one record for every other region, in source order.
C15_OnlyRaisingRegionSkipped ==
  Parsed =>
    LET rest == Survivors(OutputsFrom(last_call.arg.text, 1), last_call.arg.raising)
    IN /\ Len(last_call.ret) = Len(rest)
       /\ \A i \in 1..Len(rest) : last_call.ret[i] = RecordOf(rest[i])

\* the first of three regions raised and the two after it gave their records
C15_Witness ==
  /\ Parsed
  /\ Len(OutputsFrom(last_call.arg.text, 1)) = 3
  /\ last_call.arg.raising = {1}
  /\ Len(last_call.ret) = 2
  /\ last_call.ret[1] # last_call.ret[2]

\* the field texts whose reading the normalization rule of C16 fixes
PlainValues ==
  SampleValues \ {<<"0", ".", "0">>, <<"1", ".", "0">>, <<"[", "n", "u", "l", "l", "]">>}

\* the value the normalization rule gives for the text of a present tag
Normalized(tag, text) ==
  LET v == StripChars(text, Whitespace)
      b == StripChars(v, Brackets)
  IN IF b = <<"0">> THEN Num(0)
     ELSE IF b = <<"0", ".", "5">> THEN Num(5)
     ELSE IF b = <<"1">> THEN Num(10)
     ELSE IF Lower(v) \in {<<"n", "u", "l", "l">>, <<"n", "o", "n", "e">>} THEN None
     ELSE IF tag = "recommendationScore"
          THEN (IF ParseFloat(b).ok THEN Num(ParseFloat(b).num) ELSE Num(0))
          ELSE Str(StripChars(b, Whitespace))

\* C16: in the record of a block, a field whose tag is missing is null, and
\* a field whose tag is present holds the normalized value: 0, 0.5, 1 for
\* those texts with or without brackets, null for null/none in any case, the
\* parsed float or 0.0 for recommendationScore, else the trimmed,
\* bracket-stripped string.
C16_FieldsNormalized ==
  (/\ Parsed
   /\ last_call.arg.text \in FieldTexts
   /\ last_call.arg.raising = {})
    => LET body == OutputsFrom(last_call.arg.text, 1)[1]
           rec == last_call.ret[1]
       IN \A tag \in FieldTags :
            IF \E i \in DOMAIN body : body[i].tag = tag
            THEN body[1].text \in PlainValues => rec[tag] = Normalized(tag, body[1].text)
            ELSE rec[tag] = None

Invoked == last_call.op = "process_reasoning_request"

\* the invocation reached the ranking stage: the document was there with
\* status SEARCH_COMPLETE and candidates, and their profiles were found
ReachedRanking ==
  /\ Invoked
  /\ last_call.arg.ranking_enabled /\ last_call.arg.enriched
  /\ search_doc.exists /\ search_doc.status # "HYDE_COMPLETE"
  /\ last_call.arg.loaded # <<>>

\* C17: reconciling the same score records into the candidates a second
\* time gives the candidate list the first reconciliation gave, which is the
\* list the invocation left in the document.
C17_ReconcileIdempotent ==
  ReachedRanking =>
    LET once == RankStage(last_call.arg.loaded, last_call.arg.ranked_results)
        twice == RankStage(once.candidates, last_call.arg.ranked_results)
    IN /\ search_doc.candidates = once.candidates
       /\ twice.candidates = once.candidates
       /\ twice.raised = once.raised

\* the stage reordered the candidates, and the records held one at or above
\* the threshold for a loaded candidate
C17_Witness ==
  /\ ReachedRanking
  /\ response = 200
  /\ search_doc.candidates # last_call.arg.loaded
  /\ \E i \in DOMAIN last_call.arg.ranked_results :
       /\ last_call.arg.ranked_results[i].nodeId \in Ids(last_call.arg.loaded)
       /\ last_call.arg.ranked_results[i].recommendationScore = Num(80)

\* the invocation reached the reasoning reconciliation
ReachedReasoning ==
  /\ Invoked
  /\ last_call.arg.reasoning_enabled
  /\ response = 200

\* the candidates as the reasoning reconciliation read them
BeforeReasoning ==
  IF ~last_call.arg.enriched THEN last_call.arg.loaded
  ELSE IF last_call.arg.ranking_enabled
       THEN RankStage(last_call.arg.loaded, last_call.arg.ranked_results).candidates
       ELSE SortCandidates(FALSE, last_call.arg.loaded)

ReasonedNodes == Range(Take(NodesOf(BeforeReasoning), last_call.arg.top_k))

\* C18: the reasoning reconciliation keeps the number and the order of the
\* candidates and every field but 'reasoning', which changes only for the
\* candidates it has results for.
C18_OnlyReasoningChanges ==
  ReachedReasoning =>
    /\ Len(search_doc.candidates) = Len(BeforeReasoning)
    /\ \A i \in DOMAIN BeforeReasoning :
         /\ search_doc.candidates[i] =
              [BeforeReasoning[i] EXCEPT !.reasoning = search_doc.candidates[i].reasoning]
         /\ BeforeReasoning[i].personId \notin ReasonedNodes
              => search_doc.candidates[i].reasoning = BeforeReasoning[i].reasoning

\* of two candidates, the first, which has a score, received reasoning and
\* the second did not
C18_Witness ==
  /\ ReachedReasoning
  /\ Len(search_doc.candidates) = 2
  /\ search_doc.candidates[1].reasoning.present
  /\ search_doc.candidates[1].score = Num(80)
  /\ ~search_doc.candidates[2].reasoning.present

\* the ranking stage wrote its candidate list to the document
RankingWritten == ReachedRanking /\ search_doc.status # "ERROR"

CandidateOf(cands, pid) == cands[CHOOSE i \in DOMAIN cands : cands[i].personId = pid]
RecordsOf(pid) ==
  {i \in DOMAIN last_call.arg.ranked_results : last_call.arg.ranked_results[i].nodeId = pid}

\* C19: a candidate whose score records are all below the threshold is in
\* the persisted list in its prior state, and a candidate with a record at
\* or above the threshold carries that record's score and ranked = true.
C19_ThresholdOverlay ==
  RankingWritten =>
    \A pid \in Ids(last_call.arg.loaded) :
      /\ pid \in Ids(search_doc.candidates)
      /\ (/\ RecordsOf(pid) # {}
          /\ \A i \in RecordsOf(pid) : ~AtOrAboveThreshold(last_call.arg.ranked_results[i]))
           => CandidateOf(search_doc.candidates, pid) = CandidateOf(last_call.arg.loaded, pid)
      /\ \A i \in RecordsOf(pid) :
           (/\ AtOrAboveThreshold(last_call.arg.ranked_results[i])
            /\ \A j \in RecordsOf(pid) : j <= i)
             => /\ CandidateOf(search_doc.candidates, pid).ranked
                /\ CandidateOf(search_doc.candidates, pid).score
                     = last_call.arg.ranked_results[i].recommendationScore

HasScore(c) == c.score.kind = "num"

\* scored candidates first, by score descending, ties by similarity descending
RankOrdered(cands) ==
  \A i \in DOMAIN cands, j \in DOMAIN cands :
    i < j =>
      /\ HasScore(cands[j]) => HasScore(cands[i])
      /\ (HasScore(cands[i]) /\ HasScore(cands[j])) =>
           \/ cands[i].score.num > cands[j].score.num
           \/ /\ cands[i].score.num = cands[j].score.num
              /\ cands[i].similarity >= cands[j].similarity

\* C20: the ordering step of the ranking stage succeeds, also for candidates
\* whose score is null or missing, and the persisted list has every scored
\* candidate before every unscored one, the scored ones by score descending
\* and, on equal score, by similarity descending.
C20_ScoredFirstOrder ==
  (ReachedRanking /\ ~FilterRaises(last_call.arg.ranked_results)) =>
    /\ response # 500
    /\ RankOrdered(search_doc.candidates)

\* C21: after a ranking run that wrote its list, a candidate for which no
\* score record came back has no score left: its score is null or missing.
C21_UnscoredScoreCleared ==
  RankingWritten =>
    \A pid \in Ids(last_call.arg.loaded) :
      RecordsOf(pid) = {} =>
        CandidateOf(search_doc.candidates, pid).score.kind \in {"none", "absent"}

Unique(cands) ==
  \A i \in DOMAIN cands, j \in DOMAIN cands :
    cands[i].personId = cands[j].personId => i = j

\* C22: the list the ranking stage leaves in the document holds every
\* identity at most once, and its identities are those of the loaded list,
\* whatever records the ranking returned.
C22_IdentitiesPreserved ==
  ReachedRanking =>
    /\ Unique(search_doc.candidates)
    /\ Ids(search_doc.candidates) = Ids(last_call.arg.loaded)

\* two records for one candidate, none for the other, and a reordered list
C22_Witness ==
  /\ RankingWritten
  /\ Len(last_call.arg.loaded) = 2
  /\ Len(last_call.arg.ranked_results) = 2
  /\ RecordsOf(1) = {1, 2}
  /\ search_doc.candidates # last_call.arg.loaded

\* C28: a candidate that this run marked ranked, or whose score this run
\* changed, has a record at or above the threshold, and its stored score is
\* that record's score.
C28_NoFabricatedScore ==
  RankingWritten =>
    \A pid \in Ids(last_call.arg.loaded) :
      LET before == CandidateOf(last_call.arg.loaded, pid)
          after == CandidateOf(search_doc.candidates, pid)
      IN (after.ranked \/ after.score # before.score) =>
           \E i \in RecordsOf(pid) :
             /\ AtOrAboveThreshold(last_call.arg.ranked_results[i])
             /\ after.score = last_call.arg.ranked_results[i].recommendationScore

\* one candidate with a record at the threshold or above, another with a
\* record below it that is left as it was loaded
C28_Witness ==
  /\ RankingWritten
  /\ Len(last_call.arg.loaded) = 2
  /\ \E i \in RecordsOf(1) : AtOrAboveThreshold(last_call.arg.ranked_results[i])
  /\ \E i \in RecordsOf(2) : ~AtOrAboveThreshold(last_call.arg.ranked_results[i])
  /\ CandidateOf(search_doc.candidates, 2) = CandidateOf(last_call.arg.loaded, 2)

\* C29: the handler reads each record's identity under the key the ranking
\* wrote it, and a candidate with a record at or above the threshold is
\* marked ranked with the score of such a record.
C29_ResolvedRecordsApplied ==
  RankingWritten =>
    /\ \A i \in DOMAIN last_call.arg.ranked_results :
         PersonIdOf(last_call.arg.ranked_results[i]) = last_call.arg.ranked_results[i].nodeId
    /\ \A pid \in Ids(last_call.arg.loaded) :
         (\E i \in RecordsOf(pid) : AtOrAboveThreshold(last_call.arg.ranked_results[i])) =>
           /\ CandidateOf(search_doc.candidates, pid).ranked
           /\ \E i \in RecordsOf(pid) :
                /\ AtOrAboveThreshold(last_call.arg.ranked_results[i])
                /\ CandidateOf(search_doc.candidates, pid).score
                     = last_call.arg.ranked_results[i].recommendationScore

\* the records of the well-formed blocks of a three-block text, in order
OwnRecords(p, b1, b2, b3) ==
  (IF p = 1 THEN <<>> ELSE <<RecordOf(b1)>>)
    \o (IF p = 2 THEN <<>> ELSE <<RecordOf(b2)>>)
    \o (IF p = 3 THEN <<>> ELSE <<RecordOf(b3)>>)

\* C30: of two well-formed blocks and one block without closing tag, each
\* well-formed block gives its own record, with every field taken from that
\* block: no field, the id least of all, comes from the unclosed block.
C30_FieldsFromOneBlock ==
  (Parsed /\ last_call.arg.raising = {}) =>
    \A p \in 1..3, b1 \in Bodies, b2 \in Bodies, b3 \in Bodies :
      last_call.arg.text = ThreeBlocks(p, b1, b2, b3)
        => last_call.ret = OwnRecords(p, b1, b2, b3)

\* C23: an invocation for a searchId without document replies 404, and one
\* for a document whose status is not SEARCH_COMPLETE or whose candidate list
\* is empty replies 400; in each case the document is left as it was and no
\* LLM stage is entered.
C23_RejectedWithoutEffect ==
  Invoked =>
    LET doc == last_call.arg.doc
    IN /\ ~doc.exists => response = 404 /\ search_doc = doc /\ last_call.calls = {}
       /\ (doc.exists /\ (doc.status # "SEARCH_COMPLETE" \/ doc.candidates = <<>>))
            => response = 400 /\ search_doc = doc /\ last_call.calls = {}

\* a document with candidates but not in SEARCH_COMPLETE was rejected, in an
\* invocation with both stages enabled
C23_Witness ==
  /\ Invoked
  /\ last_call.arg.doc.exists
  /\ last_call.arg.doc.status = "HYDE_COMPLETE"
  /\ last_call.arg.doc.candidates # <<>>
  /\ last_call.arg.ranking_enabled /\ last_call.arg.reasoning_enabled
  /\ response = 400

\* an exception left one of the stages of the invocation
Raised ==
  /\ Invoked
  /\ Rejection(last_call.arg.doc) = 0
  /\ \/ last_call.arg.fault = "build_candidate_materials"
     \/ /\ last_call.arg.enriched /\ last_call.arg.ranking_enabled
        /\ RankStage(last_call.arg.loaded, last_call.arg.ranked_results).raised
     \/ /\ last_call.arg.doc.query
        /\ \/ last_call.arg.fault = "update_one"
           \/ last_call.arg.fault = "batch_analyze_profiles" /\ last_call.arg.reasoning_enabled

ErrorRecorded ==
  /\ search_doc.status = "ERROR"
  /\ search_doc.error
  /\ search_doc.events = last_call.arg.doc.events + 1

\* C24 as stated: whenever an exception leaves a stage, the reply is 500 and
\* the document has status ERROR, an error record and one more event.
C24_ErrorAlwaysRecorded ==
  Raised => response = 500 /\ ErrorRecorded

\* C24 amended: whenever an exception leaves a stage the reply is 500 (the
\* handler returns, it never raises); the document has status ERROR, an error
\* record and one more event unless the update that writes them raised too,
\* and then the document is as the stages left it.
C24_ErrorRecordedIfWritable ==
  /\ Invoked => response \in {200, 400, 404, 500}
  /\ Raised =>
       /\ response = 500
       /\ ~last_call.arg.db_error => ErrorRecorded
       /\ last_call.arg.db_error => search_doc.status = "SEARCH_COMPLETE" /\ ~search_doc.error

\* the reasoning stage raised after the ranked list was written, and the
\* error was recorded on the document that holds the ranked list
C24_Witness ==
  /\ Raised
  /\ last_call.arg.fault = "batch_analyze_profiles"
  /\ ~last_call.arg.db_error
  /\ response = 500
  /\ ErrorRecorded
  /\ search_doc.ranked = "unset"

\* C26: after an invocation that completed with 200, the test harness finds
\* what it requires: a non-empty list at results.ranked when ranking was
\* enabled, a reasoning entry when reasoning was enabled.
C26_HarnessSatisfied ==
  (Invoked /\ response = 200) =>
    main(search_doc, last_call.arg.ranking_enabled, last_call.arg.reasoning_enabled) = 0

\* C25: batch_analyze_profiles returns one result per node, the i-th for the
\* i-th node: the node's own analysis when it was analysed, an error record
\* when its nodeId is missing or its fetch, conversion or analysis failed.
C25_OneResultPerNode ==
  stage = "analyzed" =>
    /\ Len(final_results) = Len(people)
    /\ \A i \in DOMAIN people :
         LET r == final_results[i]
         IN /\ r.nodeId = people[i]
            /\ status[i] = "ok" => r.error = "none" /\ r.analysis = people[i]
            /\ status[i] # "ok" => r.error \notin {"none", "pending"} /\ r.analysis = NoNode

\* the analysis of the first node raised after the second node, which
\* finished first, was analysed; each has its result at its own position
C25_Witness ==
  /\ stage = "analyzed"
  /\ Len(people) = 2 /\ people[1] # people[2]
  /\ status[1] = "analysis_raises" /\ status[2] = "ok"
  /\ idx[2] < idx[1]
  /\ final_results[2] = AnalysisRecord(people[2])

Converted == last_call.op = "convert_hyde_details_to_xml"

\* the blocks of the result that stand for dimension d
BlocksFor(d) ==
  {i \in DOMAIN last_call.ret.children : last_call.ret.children[i].tag = BlockTag(d)}

\* C27: the result of convert_hyde_details_to_xml has, for each dimension,
\* one block when the dimension has items and none when it has not; a block
\* holds the items, carries the operator supplied or else the default, and
\* carries a temporal attribute only if it is the organizations or the
\* sectors block and that temporal was supplied; with no dimension that has
\* items the result is the empty hyde_analysis element.
C27_BlocksOnlyForDimensionsWithItems ==
  Converted =>
    LET details == last_call.arg
        out == last_call.ret
    IN /\ out.tag = "hyde_analysis"
       /\ ~details.present => out.children = <<>>
       /\ details.present =>
            /\ Len(out.children) <= Len(Dimensions)
            /\ \A d \in DimensionSet :
                 /\ Cardinality(BlocksFor(d)) = IF details.items[d] # <<>> THEN 1 ELSE 0
                 /\ \A i \in BlocksFor(d) :
                      LET b == out.children[i]
                      IN /\ Len(b.children) = Len(details.items[d])
                         /\ b.operator \in {"AND", "OR"}
                         /\ details.operator[d] # "absent" => b.operator = details.operator[d]
                         /\ b.temporal # "absent" =>
                              /\ d \in {"organizations", "sectors"}
                              /\ b.temporal = details.temporal[d]
                              /\ details.temporal[d] # "absent"
            /\ (\A d \in DimensionSet : details.items[d] = <<>>) => out = EmptyHydeAnalysis

\* skills and sectors have items and the other dimensions none; a temporal
\* was supplied for both, and only the sectors block carries it
C27_Witness ==
  /\ Converted
  /\ last_call.arg.present
  /\ \A d \in DimensionSet : last_call.arg.items[d] # <<>> <=> d \in {"skills", "sectors"}
  /\ last_call.arg.temporal["skills"] = "past" /\ last_call.arg.temporal["sectors"] = "past"
  /\ Len(last_call.ret.children) = 2
  /\ last_call.ret.children[1].temporal = "absent"
  /\ last_call.ret.children[2].temporal = "past"

\* C31: every record extract_score_data returns has a number as its
\* recommendationScore, whatever the text of the tag and also when the tag
\* is missing.
C31_ScoreAlwaysNumeric ==
  Parsed =>
    \A i \in 1..Len(last_call.ret) : last_call.ret[i].recommendationScore.kind = "num"

\* C40: the result of process_people_direct holds every record of every
\* batch that returned records, ordered by score descending, also when a
\* record of some batch has a null score.
C40_AllRecordsSortedDespiteNull ==
  stage = "done" =>
    /\ \A t \in Tasks : \A i \in 1..Len(result[t]) : Contains(final_results, result[t][i])
    /\ \A i \in 1..Len(final_results), j \in 1..Len(final_results) :
         i < j => final_results[i].score >= final_results[j].score

PositionOf(cands, pid) == CHOOSE i \in DOMAIN cands : cands[i].personId = pid

\* C32: in the list the ranking stage leaves, two candidates with equal
\* score (or both without score) and equal similarity keep the relative
\* order of the loaded list, and of two candidates without score the one
\* with the greater similarity comes first.
C32_StableAndUnscoredBySimilarity ==
  (ReachedRanking /\ ~FilterRaises(last_call.arg.ranked_results)) =>
    LET out == search_doc.candidates
        loaded == last_call.arg.loaded
    IN \A a \in Ids(loaded), b \in Ids(loaded) :
         LET ca == CandidateOf(out, a)
             cb == CandidateOf(out, b)
         IN /\ (/\ ca.similarity = cb.similarity
                /\ \/ ~HasScore(ca) /\ ~HasScore(cb)
                   \/ HasScore(ca) /\ HasScore(cb) /\ ca.score = cb.score
                /\ PositionOf(loaded, a) < PositionOf(loaded, b))
                 => PositionOf(out, a) < PositionOf(out, b)
            /\ (~HasScore(ca) /\ ~HasScore(cb) /\ ca.similarity > cb.similarity)
                 => PositionOf(out, a) < PositionOf(out, b)

ParsedOutput == last_call.op = "parse_output"

ResultOf(pid) ==
  LET results == AnalysisResults(Take(NodesOf(BeforeReasoning), last_call.arg.top_k),
                                 last_call.arg.errs)
  IN results[CHOOSE i \in DOMAIN results : results[i].nodeId = pid]

\* C34: after the reasoning stage, a candidate whose analysis succeeded has
\* in its reasoning entry the insights and the metadata of its result.
C34_InsightsPersisted ==
  ReachedReasoning =>
    \A pid \in ReasonedNodes :
      ~ResultOf(pid).error =>
        LET reasoning == CandidateOf(search_doc.candidates, pid).reasoning
        IN /\ reasoning.present
           /\ reasoning.metadata = ResultOf(pid).metadata
           /\ ResultOf(pid).insights \in {reasoning.summary, reasoning.highlights}

\* C35: when the wrapper of retry_on_empty_result has finished, by a result
\* of the fallback model, by an empty result or by a raise, model_name is
\* what it was before the call.
C35_ModelNameRestored ==
  last_call.op = "wrapper" => model_name = last_call.arg.model_name

\* C36: the status of the document changes only from SEARCH_COMPLETE, and
\* only to RANK_AND_REASONING_COMPLETE or ERROR; the step in which an
\* invocation replies 200 leaves RANK_AND_REASONING_COMPLETE and one more
\* event; an invocation that finds the document in either final status
\* replies 400 and the document stays as it is.
C36_StatusOnlyForward ==
  [][search_doc.exists =>
       /\ search_doc'.status # search_doc.status =>
            /\ search_doc.status = "SEARCH_COMPLETE"
            /\ search_doc'.status \in {"RANK_AND_REASONING_COMPLETE", "ERROR"}
       /\ \A i \in DOMAIN status :
            /\ (status[i] = 0 /\ status'[i] = 200) =>
                 /\ search_doc'.status = "RANK_AND_REASONING_COMPLETE"
                 /\ search_doc'.events = search_doc.events + 1
            /\ (/\ pc[i] = "start" /\ pc'[i] # "start"
                /\ search_doc.status \in {"RANK_AND_REASONING_COMPLETE", "ERROR"})
                 => status'[i] = 400 /\ search_doc' = search_doc]_vars

\* the invocations that passed the checks of the document
PassedCheck == {i \in DOMAIN pc : pc[i] # "start" /\ status[i] \notin {400, 404}}

\* C38: of the invocations on one searchId at most one passes the
\* SEARCH_COMPLETE check, so that the document receives the final status and
\* its event from one invocation at most.
C38_OneInvocationWrites ==
  /\ Cardinality(PassedCheck) <= 1
  /\ search_doc.exists => search_doc.events <= 1

\* C37: when process_reasoning_request replies 400 the search document is as
\* it was before the invocation: candidates, ranked and status unchanged.
C37_RejectionLeavesDocument ==
  (Invoked /\ response = 400) => search_doc = last_call.arg.doc

\* C39: process_people_direct eventually returns, which it does once every
\* batch is done, so that no batch waits forever for a slot of the semaphore
\* or for the lock of the mapper; on return every slot and the lock are free.
C39_EventuallyReturns ==
  /\ <>(stage = "done")
  /\ [](stage = "done" => sem = max_concurrent_tasks /\ lock = 0)

\* a run has returned in which the batches outnumbered the slots, so that a
\* batch had to wait for a slot, and every batch went through the lock
C39_Witness ==
  /\ stage = "done"
  /\ Len(batches) > max_concurrent_tasks
  /\ \A t \in Tasks : status[t] = "ok"
  /\ sem = max_concurrent_tasks /\ lock = 0

====
